---- MODULE Spec2Model ----
(***************************************************************************)
(* A model of the /ask request path of api_server.py: clarity check and    *)
(* query rewrite, coaching short-circuit, entity detection, the            *)
(* single-entity path (retrieve, strict university filter, answer,         *)
(* not-found check, references) and the multi-entity path (decompose,      *)
(* per-entity retrieval workers, slot-aware synthesis, references).        *)
(*                                                                         *)
(* Texts (questions, passages, answers) are sequences of tokens.  A        *)
(* Bengali word is written as an ASCII token with the prefix bn_; a        *)
(* bracket of a chunk tag is a token of its own.  Python's substring test  *)
(* `marker in text` and re.search of a literal pattern are modelled as     *)
(* "the marker's tokens occur contiguously in the text's tokens".  A       *)
(* passage additionally carries its length in characters, because the      *)
(* reference builder truncates by character count.                         *)
(*                                                                         *)
(* Scores are integers in units of 1/ScoreScale, so that 0.4, 0.5 and the  *)
(* reciprocal-rank terms 1/(60+rank) are all exact.                        *)
(***************************************************************************)
EXTENDS Integers, Sequences, FiniteSets, TLC

VARIABLES
    hipporag_instance,  \* the global index: "None", or "loaded" when a HippoRAG object is bound to it
    pc,                 \* position of the /ask handler
    request,            \* the question the client submitted, or None
    original_question,  \* request.question as submitted
    working_question,   \* the query the stages after the clarity check use
    detected_entities,  \* detect_entities_in_query(working_question)
    query_intent,       \* detect_query_intent(working_question)
    queried_university, \* get_queried_university(working_question)[0]
    attempt,            \* iteration of the single-entity retry loop
    retrieved,          \* what hipporag.retrieve last returned
    qs,                 \* the query solution handed to hipporag.qa
    query_solution,     \* the query solution the references are built from
    answer,             \* the answer text, or None
    sub_queries,        \* decomposer output: <<abbrev, full_name, sub_query>>
    pending,            \* indices of sub-queries whose worker has not finished
    entity_results,     \* ordered map abbrev -> data, in completion order
    calls,              \* stages invoked for the current request
    response,           \* the HTTP response of the current request, or None
    fin,                \* function harness: the input of the function call
    fout,               \* function harness: the output of the function call
    llm_cache,          \* LLM gateway: the rows of the cache table
    llm_call,           \* LLM gateway: the state of each caller's infer call
    llm_hits,           \* LLM gateway: <<key, message>> of every call answered from the cache
    llm_lock            \* LLM gateway: the caller that holds the cache file's lock, or 0

vars == <<hipporag_instance, pc, request, original_question, working_question,
          detected_entities, query_intent, queried_university, attempt,
          retrieved, qs, query_solution, answer, sub_queries, pending,
          entity_results, calls, response, fin, fout, llm_cache, llm_call, llm_hits, llm_lock>>

llmVars == <<llm_cache, llm_call, llm_hits, llm_lock>>

askVars == <<hipporag_instance, pc, request, original_question, working_question,
             detected_entities, query_intent, queried_university, attempt,
             retrieved, qs, query_solution, answer, sub_queries, pending,
             entity_results, calls, response>>

\* Python's None: for a name or flag, for a text, and for an object
None == "None"
NoText == <<"<None>">>
NoneValue == [none |-> TRUE]

-----------------------------------------------------------------------------
(* Bounds of the model *)

MaxDocs == 4        \* longest passage list hipporag.retrieve returns on the single-entity path
MaxSubDocs == 1     \* longest passage list the semantic pass of a worker returns
MaxBm25Docs == 1    \* longest passage list the BM25 pass of a worker returns
MaxEntities == 2    \* most entities a question of the model names

-----------------------------------------------------------------------------
(* Text primitives *)

\* str.lower() on one token
LowerTok(t) ==
    CASE t = "KU" -> "ku"
      [] t = "KUET" -> "kuet"
      [] t = "BUET" -> "buet"
      [] t = "Khulna" -> "khulna"
      [] t = "University" -> "university"
      [] t = "Engineering" -> "engineering"
      [] t = "Information" -> "information"
      [] t = "Not" -> "not"
      [] t = "Found" -> "found"
      [] t = "No" -> "no"
      [] t = "Seats" -> "seats"
      [] t = "HTTPS://" -> "https://"
      [] t = "UDVASH" -> "udvash"
      [] t = "Sorry" -> "sorry"
      [] OTHER -> t

\* str.lower()
Lower(text) == [i \in DOMAIN text |-> LowerTok(text[i])]

\* `pat in text` / re.search(pat, text) for a literal pattern
InText(pat, text) ==
    \E i \in 0..(Len(text) - Len(pat)) :
        \A j \in 1..Len(pat) : text[i + j] = pat[j]

AnyInText(pats, text) == \E k \in DOMAIN pats : InText(pats[k], text)

\* scores[i] if i < len(scores) else 0.0   (i is a 1-based position here)
ScoreAt(scores, i) == IF i <= Len(scores) THEN scores[i] ELSE 0

\* s[:n]
Prefix(s, n) == SubSeq(s, 1, IF n < Len(s) THEN n ELSE Len(s))

-----------------------------------------------------------------------------
(* Scores *)

ScoreScale == 10 * 61 * 31 * 63 * 64 * 13

Tenths(n) == n * (ScoreScale \div 10)

\* the scores a retrieval pass can report for a passage
ScoreValues == {Tenths(3), Tenths(6), Tenths(9)}

-----------------------------------------------------------------------------
(* UNIVERSITY_FILTER_PATTERNS *)

UNIVERSITY_FILTER_PATTERNS ==
    [ jnu |-> [ must_contain |-> << <<"bn_jagannath">>, <<"jagannath">>, <<"jnu">>, <<"bn_jobi">>,
                                   <<"[", "bn_jagannath", "bn_university", "jnu", "]">> >>,
                must_not_contain |-> << <<"bn_jahangirnagar">>, <<"jahangirnagar">>, <<"bn_jabi">> >> ],
      ju |-> [ must_contain |-> << <<"bn_jahangirnagar">>, <<"jahangirnagar">>, <<"bn_jabi">>,
                                  <<"[", "bn_jahangirnagar", "bn_university", "ju", "]">> >>,
               must_not_contain |-> << <<"bn_jagannath">>, <<"jagannath">>, <<"bn_jobi">> >> ],
      ku |-> [ must_contain |-> << <<"bn_khulna", "bn_university">>, <<"khulna", "university">>, <<"bn_khubi">>,
                                  <<"[", "bn_khulna", "bn_university", "ku", "]">> >>,
               must_not_contain |-> << <<"bn_engineering">>, <<"engineering">>, <<"bn_kuet">>, <<"kuet">> >> ],
      kuet |-> [ must_contain |-> << <<"bn_kuet">>, <<"kuet">>, <<"[", "bn_kuet">>,
                                    <<"bn_khulna", "bn_engineering">>, <<"admission.kuet">> >>,
                 must_not_contain |-> << >> ],
      ru |-> [ must_contain |-> << <<"bn_rajshahi", "bn_university">>, <<"rajshahi", "university">>, <<"bn_rabi">>,
                                  <<"[", "bn_rajshahi", "bn_university", "ru", "]">> >>,
               must_not_contain |-> << <<"bn_engineering">>, <<"engineering">>, <<"bn_ruet">>, <<"ruet">> >> ],
      ruet |-> [ must_contain |-> << <<"bn_ruet">>, <<"ruet">>, <<"[", "bn_ruet">>,
                                    <<"bn_rajshahi", "bn_engineering">>, <<"admission.ruet">> >>,
                 must_not_contain |-> << >> ],
      cu |-> [ must_contain |-> << <<"bn_chittagong", "bn_university">>, <<"chittagong", "university">>, <<"bn_chobi">>,
                                  <<"[", "bn_chittagong", "bn_university", "cu", "]">> >>,
               must_not_contain |-> << <<"bn_engineering">>, <<"engineering">>, <<"bn_cuet">>, <<"cuet">> >> ],
      cuet |-> [ must_contain |-> << <<"bn_cuet">>, <<"cuet">>, <<"[", "bn_cuet">>,
                                    <<"bn_chittagong", "bn_engineering">>, <<"admission.cuet">> >>,
                 must_not_contain |-> << >> ],
      du |-> [ must_contain |-> << <<"bn_dhaka", "bn_university">>, <<"dhaka", "university">>, <<"bn_dhabi">>,
                                  <<"[", "bn_dhaka", "bn_university", "du", "]">> >>,
               must_not_contain |-> << >> ],
      sust |-> [ must_contain |-> << <<"bn_shahjalal">>, <<"sust">>, <<"bn_shabi">>,
                                    <<"[", "bn_shahjalal", "bn_university", "sust", "]">> >>,
                 must_not_contain |-> << >> ],
      buet |-> [ must_contain |-> << <<"bn_buet">>, <<"buet">>, <<"[", "bn_buet", "buet", "]">> >>,
                 must_not_contain |-> << >> ],
      cou |-> [ must_contain |-> << <<"bn_comilla", "bn_university">>, <<"comilla", "university">>, <<"bn_kubi">>,
                                   <<"cou">>, <<"[", "bn_comilla", "bn_university", "cou", "]">>,
                                   <<"www.cou.ac.bd">> >>,
                must_not_contain |-> << >> ],
      bau |-> [ must_contain |-> << <<"bn_bangladesh", "bn_agri", "bn_university">>, <<"bangladesh", "agricultural">>,
                                   <<"bn_bakribi">>, <<"bau">>, <<"[", "bn_bakribi", "bau", "]">> >>,
                must_not_contain |-> << >> ],
      nstu |-> [ must_contain |-> << <<"bn_noakhali", "bn_science">>, <<"noakhali", "science">>, <<"bn_nstu">>,
                                    <<"nstu">>, <<"[", "bn_nstu", "nstu", "]">> >>,
                 must_not_contain |-> << >> ],
      pstu |-> [ must_contain |-> << <<"bn_patuakhali", "bn_science">>, <<"patuakhali", "science">>, <<"bn_pstu">>,
                                    <<"pstu">>, <<"[", "bn_pstu", "pstu", "]">> >>,
                 must_not_contain |-> << >> ],
      just |-> [ must_contain |-> << <<"bn_jashore", "bn_science">>, <<"jessore", "science">>,
                                    <<"jashore", "science">>, <<"bn_just">>, <<"just">>,
                                    <<"[", "bn_just", "just", "]">> >>,
                 must_not_contain |-> << >> ],
      hstu |-> [ must_contain |-> << <<"bn_hajee", "bn_danesh">>, <<"hajee", "danesh">>, <<"bn_hstu">>,
                                    <<"hstu">>, <<"[", "bn_hstu", "hstu", "]">> >>,
                 must_not_contain |-> << >> ],
      mbstu |-> [ must_contain |-> << <<"bn_mawlana", "bn_bhashani">>, <<"mawlana", "bhashani">>, <<"bn_mbstu">>,
                                     <<"mbstu">>, <<"[", "bn_mbstu", "mbstu", "]">> >>,
                  must_not_contain |-> << >> ],
      bu |-> [ must_contain |-> << <<"bn_barishal", "bn_university">>, <<"barishal", "university">>, <<"bn_bobi">>,
                                  <<"[", "bn_barishal", "bn_university", "bu", "]">> >>,
               must_not_contain |-> << >> ],
      brur |-> [ must_contain |-> << <<"bn_begum", "bn_rokeya">>, <<"begum", "rokeya">>, <<"bn_brur">>,
                                    <<"brur">>, <<"[", "bn_brur", "brur", "]">> >>,
                 must_not_contain |-> << >> ],
      coaching |-> [ must_contain |-> << <<"udvash">>, <<"bn_udvash">>, <<"unmesh">>, <<"bn_unmesh">>,
                                        <<"uttoron">>, <<"bn_uttoron">>, <<"batch">>, <<"bn_batch">>,
                                        <<"test", "exam">>, <<"online", "exam">>, <<"offline", "exam">>,
                                        <<"branch">>, <<"bn_branch">>, <<"bn_coaching">>,
                                        <<"bn_medhabritti">>, <<"medha", "britti">>, <<"medhab">>,
                                        <<"scholarship", "exam">>, <<"bn_model", "bn_test">>,
                                        <<"model", "test">> >>,
                     must_not_contain |-> << >> ] ]

FilterAbbrevs == DOMAIN UNIVERSITY_FILTER_PATTERNS

\* sum(1 for pattern in must_contain if pattern.lower() in doc_lower)
MatchCount(doc, must_contain) ==
    Cardinality({k \in DOMAIN must_contain : InText(Lower(must_contain[k]), Lower(doc.toks))})

\* any(pattern.lower() in doc_lower for pattern in must_not_contain)
ContainsForbidden(doc, must_not_contain) ==
    \E k \in DOMAIN must_not_contain : InText(Lower(must_not_contain[k]), Lower(doc.toks))

-----------------------------------------------------------------------------
(* list.sort(key=lambda x: (x[2], x[1]), reverse=True): a stable sort,     *)
(* descending in the key (k1, k2); items with equal keys keep their order. *)

KeyGT(a, b) == a.k1 > b.k1 \/ (a.k1 = b.k1 /\ a.k2 > b.k2)

RECURSIVE InsertDesc(_, _)
InsertDesc(sorted, x) ==
    IF sorted = << >> THEN <<x>>
    ELSE IF KeyGT(x, Head(sorted)) THEN <<x>> \o sorted
    ELSE <<Head(sorted)>> \o InsertDesc(Tail(sorted), x)

RECURSIVE SortDesc(_)
SortDesc(items) ==
    IF items = << >> THEN << >>
    ELSE InsertDesc(SortDesc(SubSeq(items, 1, Len(items) - 1)), items[Len(items)])

\* [f(x) for x in s if P(x)] over positions: keep the items at the positions in keep
RECURSIVE SelectPos(_, _, _)
SelectPos(s, keep, i) ==
    IF i > Len(s) THEN << >>
    ELSE (IF i \in keep THEN <<s[i]>> ELSE << >>) \o SelectPos(s, keep, i + 1)

DocsOf(items) == [i \in DOMAIN items |-> items[i].doc]
ScoresOf(items) == [i \in DOMAIN items |-> items[i].score]

-----------------------------------------------------------------------------
(* filter_documents_by_university *)

filter_documents_by_university(docs, scores, queried_uni, strict) ==
    IF queried_uni \notin FilterAbbrevs THEN [docs |-> docs, scores |-> scores]
    ELSE
      LET rules == UNIVERSITY_FILTER_PATTERNS[queried_uni]
          must_contain == rules.must_contain
          must_not_contain == rules.must_not_contain
          entry(i) == [doc |-> docs[i], score |-> ScoreAt(scores, i),
                       k1 |-> MatchCount(docs[i], must_contain), k2 |-> ScoreAt(scores, i)]
          keep == {i \in DOMAIN docs :
                      /\ (IF must_contain # << >> THEN MatchCount(docs[i], must_contain) > 0 ELSE TRUE)
                      /\ ~(IF must_not_contain # << >> THEN ContainsForbidden(docs[i], must_not_contain)
                           ELSE FALSE)}
          filtered == SelectPos([i \in DOMAIN docs |-> entry(i)], keep, 1)
          combined == SortDesc(filtered)
      IN  IF filtered = << >>
          THEN (IF strict THEN [docs |-> << >>, scores |-> << >>]
                ELSE [docs |-> docs, scores |-> scores])
          ELSE [docs |-> DocsOf(combined), scores |-> ScoresOf(combined)]

-----------------------------------------------------------------------------
(* strict_university_filter *)

\* strict_university_filter with a fallback that returns nothing for every abbreviation
strict_university_filter_no_fallback(docs, scores, queried_uni, min_docs) ==
    IF queried_uni \notin FilterAbbrevs THEN [docs |-> docs, scores |-> scores]
    ELSE
      LET must_contain == UNIVERSITY_FILTER_PATTERNS[queried_uni].must_contain
          scored_docs == SortDesc([i \in DOMAIN docs |->
                            [doc |-> docs[i], score |-> ScoreAt(scores, i),
                             k1 |-> MatchCount(docs[i], must_contain), k2 |-> ScoreAt(scores, i)]])
          matched_docs == SelectPos(scored_docs, {i \in DOMAIN scored_docs : scored_docs[i].k1 > 0}, 1)
      IN  [docs |-> DocsOf(matched_docs), scores |-> ScoresOf(matched_docs)]

\* strict_university_filter with a fallback that forgets the [:min_docs] slice
strict_university_filter_unsliced(docs, scores, queried_uni, min_docs) ==
    IF queried_uni \notin FilterAbbrevs THEN [docs |-> docs, scores |-> scores]
    ELSE
      LET must_contain == UNIVERSITY_FILTER_PATTERNS[queried_uni].must_contain
          scored_docs == SortDesc([i \in DOMAIN docs |->
                            [doc |-> docs[i], score |-> ScoreAt(scores, i),
                             k1 |-> MatchCount(docs[i], must_contain), k2 |-> ScoreAt(scores, i)]])
          matched_docs == SelectPos(scored_docs, {i \in DOMAIN scored_docs : scored_docs[i].k1 > 0}, 1)
      IN  IF matched_docs # << >>
          THEN [docs |-> DocsOf(matched_docs), scores |-> ScoresOf(matched_docs)]
          ELSE IF queried_uni = "coaching"
          THEN [docs |-> << >>, scores |-> << >>]
          ELSE [docs |-> docs, scores |-> scores]

strict_university_filter(docs, scores, queried_uni, min_docs) ==
    IF queried_uni \notin FilterAbbrevs THEN [docs |-> docs, scores |-> scores]
    ELSE
      LET must_contain == UNIVERSITY_FILTER_PATTERNS[queried_uni].must_contain
          scored_docs == SortDesc([i \in DOMAIN docs |->
                            [doc |-> docs[i], score |-> ScoreAt(scores, i),
                             k1 |-> MatchCount(docs[i], must_contain), k2 |-> ScoreAt(scores, i)]])
          matched_docs == SelectPos(scored_docs, {i \in DOMAIN scored_docs : scored_docs[i].k1 > 0}, 1)
      IN  IF Len(matched_docs) >= min_docs
          THEN [docs |-> DocsOf(matched_docs), scores |-> ScoresOf(matched_docs)]
          ELSE IF matched_docs # << >>
          THEN [docs |-> DocsOf(matched_docs), scores |-> ScoresOf(matched_docs)]
          ELSE IF queried_uni = "coaching"
          THEN [docs |-> << >>, scores |-> << >>]
          ELSE [docs |-> Prefix(docs, min_docs), scores |-> Prefix(scores, min_docs)]

-----------------------------------------------------------------------------
(* The passages of the index and the questions of the model *)

D_KU == [toks |-> <<"[", "bn_khulna", "bn_university", "KU", "]", "Khulna", "University", "seat">>,
         len |-> 1500]
D_KU1 == [toks |-> <<"Khulna", "University", "admission">>, len |-> 400]
D_KUET == [toks |-> <<"[", "bn_kuet", "KUET", "]", "Khulna", "University", "of", "Engineering">>,
           len |-> 1501]
D_GEN == [toks |-> <<"admission", "circular">>, len |-> 2000]

Corpus == {D_KU, D_KU1, D_KUET, D_GEN}

Q_EMPTY == << >>
Q_KU == <<"KU", "admission", "seat">>
Q_COU == <<"cou", "admission", "fee">>
Q_MIST == <<"mist", "admission", "circular">>
Q_BATCH == <<"batch", "admission", "schedule">>
Q_COACH == <<"UDVASH", "batch", "fee">>
Q_MULTI == <<"buet", "kuet", "fee">>
Q_MULTI2 == <<"kuet", "KU", "circular">>
Q_GEN == <<"admission", "circular", "download">>
Q_DATE == <<"KU", "exam", "date">>

\* the questions a client submits
Questions == {Q_EMPTY, Q_KU, Q_COU, Q_MIST, Q_BATCH, Q_COACH, Q_MULTI, Q_MULTI2, Q_GEN, Q_DATE}

\* the texts the rewriter LLM can answer with ("UNCLEAR" and the empty
\* text included)
RewriterOutputs == {<<"UNCLEAR">>, << >>, Q_KU, Q_COACH, Q_MULTI2}

-----------------------------------------------------------------------------
(* is_query_unclear *)

\* the eight unclear_patterns; each is anchored with ^ and $
MatchesUnclearPattern(words) ==
    \/ Len(words) = 2 /\ words[1] \in {"eta", "ata", "ota", "eita"} /\ words[2] \in {"ki", "ki?", "bn_ki", "bn_ki?"}
    \/ Len(words) = 1 /\ words[1] \in {"bolo", "bolen", "bn_bolo", "bn_bolen"}
    \/ Len(words) = 1 /\ words[1] \in {"janao", "bn_janao"}
    \/ Len(words) = 2 /\ words[1] \in {"ki", "bn_ki"} /\ words[2] \in {"hobe", "hobe?", "bn_hobe", "bn_hobe?"}
    \/ Len(words) = 1 /\ words[1] \in {"kemon", "kemon?", "bn_kemon", "bn_kemon?"}
    \/ Len(words) = 2 /\ words[1] \in {"ar", "bn_ar"} /\ words[2] \in {"ki", "ki?", "bn_ki", "bn_ki?"}
    \/ Len(words) = 1 /\ words[1] = "?"
    \/ Len(words) = 1 /\ words[1] \in {"hmm", "hm", "umm", "ah", "oh"}

filler_words == {"eta", "ota", "ki", "bn_ki", "ta", "bn_ta", "gula", "bn_gula", "ar", "bn_ar", "o", "bn_o"}

is_query_unclear(query) ==
    LET words == Lower(query)
        meaningful_words == {i \in DOMAIN words : words[i] \notin filler_words /\ Len(words[i]) > 2}
    IN  \/ Len(words) < 3
        \/ MatchesUnclearPattern(words)
        \/ Cardinality(meaningful_words) < 2

-----------------------------------------------------------------------------
(* The coaching regex set (ask_question and get_queried_university) *)

strong_coaching_patterns ==
    << <<"udvash">>, <<"bn_udvash">>, <<"unmesh">>, <<"bn_unmesh">>, <<"uttoron">>, <<"bn_uttoron">>,
       <<"medha", "britti">>, <<"medhab">>, <<"bn_medhabritti">>, <<"bn_coaching">>, <<"coaching">>,
       <<"model", "test">>, <<"bn_model", "bn_test">> >>

coaching_not_found == <<"bn_kono", "bn_nirdishto", "bn_tothyo", "bn_bortomane", "bn_amar", "bn_kache", "bn_nei",
                        "https://", "udvash.com">>

-----------------------------------------------------------------------------
(* get_queried_university *)

university_patterns ==
    << <<<<"jnu">>, "jnu">>, <<<<"ju">>, "ju">>, <<<<"bn_jagannath">>, "jnu">>,
       <<<<"bn_jahangirnagar">>, "ju">>, <<<<"bn_jobi">>, "jnu">>, <<<<"bn_jabi">>, "ju">>,
       <<<<"kuet">>, "kuet">>, <<<<"ruet">>, "ruet">>, <<<<"cuet">>, "cuet">>,
       <<<<"bn_kuet">>, "kuet">>, <<<<"bn_ruet">>, "ruet">>, <<<<"bn_cuet">>, "cuet">>,
       <<<<"ku">>, "ku">>, <<<<"bn_khubi">>, "ku">>, <<<<"ru">>, "ru">>, <<<<"bn_rabi">>, "ru">>,
       <<<<"cu">>, "cu">>, <<<<"bn_chobi">>, "cu">>, <<<<"du">>, "du">>, <<<<"bn_dhabi">>, "du">>,
       <<<<"bn_dhaka", "bn_university">>, "du">>,
       <<<<"cou">>, "cou">>, <<<<"bn_kubi">>, "cou">>, <<<<"bn_comilla", "bn_university">>, "cou">>,
       <<<<"bn_comilla">>, "cou">>, <<<<"comilla">>, "cou">>,
       <<<<"sust">>, "sust">>, <<<<"bn_shabi">>, "sust">>, <<<<"bn_shahjalal">>, "sust">>,
       <<<<"buet">>, "buet">>, <<<<"bn_buet">>, "buet">>,
       <<<<"bau">>, "bau">>, <<<<"bn_bakribi">>, "bau">>, <<<<"bn_agri", "bn_university">>, "bau">>,
       <<<<"nstu">>, "nstu">>, <<<<"bn_nstu">>, "nstu">>, <<<<"bn_noakhali">>, "nstu">>,
       <<<<"pstu">>, "pstu">>, <<<<"bn_pstu">>, "pstu">>, <<<<"bn_patuakhali">>, "pstu">>,
       <<<<"just">>, "just">>, <<<<"bn_just">>, "just">>, <<<<"bn_jashore", "bn_science">>, "just">>,
       <<<<"hstu">>, "hstu">>, <<<<"bn_hstu">>, "hstu">>, <<<<"bn_hajee", "bn_danesh">>, "hstu">>,
       <<<<"mbstu">>, "mbstu">>, <<<<"bn_mbstu">>, "mbstu">>, <<<<"bn_mawlana", "bn_bhashani">>, "mbstu">>,
       <<<<"bu">>, "bu">>, <<<<"bn_bobi">>, "bu">>, <<<<"bn_barishal", "bn_university">>, "bu">>,
       <<<<"brur">>, "brur">>, <<<<"bn_brur">>, "brur">>, <<<<"bn_begum", "bn_rokeya">>, "brur">>,
       <<<<"mist">>, "mist">>, <<<<"medical">>, "medical">>, <<<<"bn_medical">>, "medical">>,
       <<<<"udvash">>, "coaching">>, <<<<"bn_udvash">>, "coaching">>, <<<<"unmesh">>, "coaching">>,
       <<<<"bn_unmesh">>, "coaching">>, <<<<"uttoron">>, "coaching">>, <<<<"bn_uttoron">>, "coaching">>,
       <<<<"batch">>, "coaching">>, <<<<"bn_batch">>, "coaching">>, <<<<"test", "exam">>, "coaching">>,
       <<<<"online", "exam">>, "coaching">>, <<<<"offline", "exam">>, "coaching">>,
       <<<<"branch">>, "coaching">>, <<<<"bn_branch">>, "coaching">>, <<<<"bn_coaching">>, "coaching">>,
       <<<<"medha", "britti">>, "coaching">>, <<<<"medhab">>, "coaching">>,
       <<<<"bn_medhabritti">>, "coaching">>, <<<<"scholarship", "exam">>, "coaching">>,
       <<<<"model", "test">>, "coaching">>, <<<<"bn_model", "bn_test">>, "coaching">> >>

\* returns the abbreviation, or None (the count is logged only)
get_queried_university(query) ==
    LET query_lower == Lower(query)
        matched_universities == {university_patterns[k][2] : k \in
                                    {k \in DOMAIN university_patterns :
                                        InText(university_patterns[k][1], query_lower)}}
    IN  IF AnyInText(strong_coaching_patterns, query_lower) THEN "coaching"
        ELSE IF Cardinality(matched_universities) > 1 THEN None
        ELSE IF Cardinality(matched_universities) = 1 THEN CHOOSE u \in matched_universities : TRUE
        ELSE None

-----------------------------------------------------------------------------
(* detect_entities_in_query *)

\* (bengali_terms, english_regex alternatives, abbrev, full_name)
entity_patterns ==
    << [bn |-> {<<"bn_kuet">>, <<"bn_khulna", "bn_engineering">>}, en |-> {"kuet"}, abbrev |-> "kuet",
        full_name |-> <<"bn_khulna", "bn_engineering", "bn_o", "bn_technology", "bn_university", "(KUET)">>],
       [bn |-> {<<"bn_ruet">>, <<"bn_rajshahi", "bn_engineering">>}, en |-> {"ruet"}, abbrev |-> "ruet",
        full_name |-> <<"bn_rajshahi", "bn_engineering", "bn_o", "bn_technology", "bn_university", "(RUET)">>],
       [bn |-> {<<"bn_cuet">>, <<"bn_chittagong", "bn_engineering">>}, en |-> {"cuet"}, abbrev |-> "cuet",
        full_name |-> <<"bn_chittagong", "bn_engineering", "bn_o", "bn_technology", "bn_university", "(CUET)">>],
       [bn |-> {<<"bn_buet">>, <<"bn_bangladesh", "bn_engineering">>}, en |-> {"buet"}, abbrev |-> "buet",
        full_name |-> <<"bn_bangladesh", "bn_engineering", "bn_university", "(BUET)">>],
       [bn |-> {<<"bn_duet">>, <<"bn_dhaka", "bn_engineering">>}, en |-> {"duet"}, abbrev |-> "duet",
        full_name |-> <<"bn_dhaka", "bn_engineering", "bn_o", "bn_technology", "bn_university", "(DUET)">>],
       [bn |-> {<<"bn_jagannath">>, <<"bn_jobi">>}, en |-> {"jnu"}, abbrev |-> "jnu",
        full_name |-> <<"bn_jagannath", "bn_university", "(JNU)">>],
       [bn |-> {<<"bn_jahangirnagar">>, <<"bn_jabi">>}, en |-> {"ju"}, abbrev |-> "ju",
        full_name |-> <<"bn_jahangirnagar", "bn_university", "(JU)">>],
       [bn |-> {<<"bn_khulna", "bn_university">>, <<"bn_khubi">>}, en |-> {"ku"}, abbrev |-> "ku",
        full_name |-> <<"bn_khulna", "bn_university", "(KU)">>],
       [bn |-> {<<"bn_rajshahi", "bn_university">>, <<"bn_rabi">>}, en |-> {"ru"}, abbrev |-> "ru",
        full_name |-> <<"bn_rajshahi", "bn_university", "(RU)">>],
       [bn |-> {<<"bn_chittagong", "bn_university">>, <<"bn_chobi">>}, en |-> {"cu"}, abbrev |-> "cu",
        full_name |-> <<"bn_chittagong", "bn_university", "(CU)">>],
       [bn |-> {<<"bn_dhaka", "bn_university">>, <<"bn_dhabi">>}, en |-> {"du"}, abbrev |-> "du",
        full_name |-> <<"bn_dhaka", "bn_university", "(DU)">>],
       [bn |-> {<<"bn_barishal", "bn_university">>, <<"bn_bobi">>}, en |-> {"bu"}, abbrev |-> "bu",
        full_name |-> <<"bn_barishal", "bn_university", "(BU)">>],
       [bn |-> {<<"bn_shahjalal">>, <<"bn_sust">>, <<"bn_shabi">>}, en |-> {"sust"}, abbrev |-> "sust",
        full_name |-> <<"bn_shahjalal", "bn_science", "bn_o", "bn_technology", "bn_university", "(SUST)">>],
       [bn |-> {<<"bn_hajee", "bn_danesh">>, <<"hstu">>}, en |-> {"hstu"}, abbrev |-> "hstu",
        full_name |-> <<"bn_hajee", "bn_mohammad", "bn_danesh", "bn_science", "bn_o", "bn_technology",
                        "bn_university", "(HSTU)">>],
       [bn |-> {<<"bn_patuakhali">>, <<"bn_pstu">>}, en |-> {"pstu"}, abbrev |-> "pstu",
        full_name |-> <<"bn_patuakhali", "bn_science", "bn_o", "bn_technology", "bn_university", "(PSTU)">>],
       [bn |-> {<<"bn_noakhali">>, <<"bn_nstu">>}, en |-> {"nstu"}, abbrev |-> "nstu",
        full_name |-> <<"bn_noakhali", "bn_science", "bn_o", "bn_technology", "bn_university", "(NSTU)">>],
       [bn |-> {<<"bn_jashore">>, <<"bn_just">>}, en |-> {"just"}, abbrev |-> "just",
        full_name |-> <<"bn_jashore", "bn_science", "bn_o", "bn_technology", "bn_university", "(JUST)">>],
       [bn |-> {<<"bn_mist">>, <<"bn_military", "bn_institute">>}, en |-> {"mist"}, abbrev |-> "mist",
        full_name |-> <<"bn_military", "bn_institute", "bn_of", "bn_science", "bn_and", "bn_technology",
                        "(MIST)">>],
       [bn |-> {<<"bn_medical">>, <<"bn_mbbs">>, <<"bn_bds">>}, en |-> {"medical", "mbbs", "bds"},
        abbrev |-> "medical", full_name |-> <<"bn_medical", "(MBBS/BDS)">>],
       [bn |-> {<<"bn_bangabandhu", "bn_sheikh", "bn_mujib", "bn_medical">>, <<"bn_bsmmu">>},
        en |-> {"bsmmu"}, abbrev |-> "bsmmu",
        full_name |-> <<"bn_bangabandhu", "bn_sheikh", "bn_mujib", "bn_medical", "bn_university", "(BSMMU)">>],
       [bn |-> {<<"bn_guccho">>, <<"bn_gst">>}, en |-> {"gst", "guccho"}, abbrev |-> "gst",
        full_name |-> <<"bn_guccho", "bn_admission", "bn_exam", "(GST)">>] >>

EntityMatches(k, query) ==
    \/ \E term \in entity_patterns[k].bn : InText(term, query)
    \/ \E w \in entity_patterns[k].en : InText(<<w>>, Lower(query))

\* returns the list of <<abbrev, full_name>> in the order of entity_patterns
detect_entities_in_query(query) ==
    LET hit == {k \in DOMAIN entity_patterns :
                   /\ EntityMatches(k, query)
                   /\ ~\E j \in 1..(k - 1) : /\ entity_patterns[j].abbrev = entity_patterns[k].abbrev
                                             /\ EntityMatches(j, query)}
    IN  SelectPos([k \in DOMAIN entity_patterns |->
                      <<entity_patterns[k].abbrev, entity_patterns[k].full_name>>], hit, 1)

-----------------------------------------------------------------------------
(* detect_query_intent *)

intent_patterns ==
    << [intent |-> "date",
        patterns |-> {<<"bn_date">>, <<"bn_kobe">>, <<"bn_kokhon">>, <<"when">>, <<"date">>, <<"bn_schedule">>,
                      <<"schedule">>, <<"bn_start">>, <<"bn_end">>, <<"deadline">>, <<"last", "date">>,
                      <<"bn_time">>, <<"bn_january">>, <<"bn_february">>, <<"bn_march">>, <<"bn_april">>,
                      <<"bn_may">>, <<"bn_june">>, <<"bn_july">>, <<"bn_august">>, <<"bn_september">>,
                      <<"bn_october">>, <<"bn_november">>, <<"bn_december">>, <<"january">>,
                      <<"february">>, <<"march">>, <<"april">>, <<"may">>, <<"june">>, <<"july">>,
                      <<"august">>, <<"september">>, <<"october">>, <<"november">>, <<"december">>}],
       [intent |-> "fee",
        patterns |-> {<<"bn_fee">>, <<"bn_taka">>, <<"fee">>, <<"bn_koto", "bn_taka">>, <<"bn_cost">>,
                      <<"payment">>, <<"bn_application", "bn_fee">>, <<"application", "fee">>,
                      <<"bn_pay">>, <<"bn_salary">>}],
       [intent |-> "eligibility",
        patterns |-> {<<"bn_eligibility">>, <<"eligibility">>, <<"requirement">>, <<"bn_condition">>,
                      <<"criteria">>, <<"bn_gpa">>, <<"gpa">>, <<"bn_point">>, <<"bn_grade">>, <<"grade">>,
                      <<"bn_pass">>, <<"bn_number">>}],
       [intent |-> "seat",
        patterns |-> {<<"bn_seat">>, <<"seat">>, <<"bn_count">>, <<"bn_kotojon">>, <<"bn_koto", "bn_jon">>,
                      <<"vacancy">>, <<"bn_seat", "bn_count">>}],
       [intent |-> "admit_card",
        patterns |-> {<<"bn_admitcard">>, <<"admit", "card">>, <<"bn_admit">>, <<"bn_entry", "bn_letter">>,
                      <<"bn_hall", "bn_ticket">>, <<"roll">>, <<"bn_roll">>, <<"bn_download">>}],
       [intent |-> "website",
        patterns |-> {<<"bn_website">>, <<"website">>, <<"bn_link">>, <<"link">>, <<"url">>, <<"bn_online">>}],
       [intent |-> "exam",
        patterns |-> {<<"bn_exam">>, <<"exam">>, <<"test">>, <<"mcq">>, <<"bn_written">>, <<"written">>}] >>

detect_query_intent(query) ==
    LET query_lower == Lower(query)
        hits == {k \in DOMAIN intent_patterns :
                    \E p \in intent_patterns[k].patterns : InText(p, query_lower)}
    IN  IF hits = {} THEN "general"
        ELSE intent_patterns[CHOOSE k \in hits : \A j \in hits : k <= j].intent

-----------------------------------------------------------------------------
(* rewrite_query_with_gpt4o_mini: out is the text the model returned, or    *)
(* RewriterError when the call raised.                                      *)

RewriterError == <<"<exception>">>

rewrite_query_with_gpt4o_mini(query, out) ==
    IF out = RewriterError THEN query
    ELSE IF out = <<"UNCLEAR">> \/ out = << >> THEN query
    ELSE out

-----------------------------------------------------------------------------
(* generate_contextual_not_found_response *)

\* the keywords a token contains as a proper substring (`kw in question_lower`
\* is a substring test on characters, without word boundaries)
SubstringsOf(tok) ==
    CASE tok = "circular" -> {"cu"}
      [] tok = "schedule" -> {"du"}
      [] tok = "udvash" -> {"du"}
      [] tok = "kuet" -> {"ku"}
      [] OTHER -> {}

KeywordIn(kw, text) ==
    IF Len(kw) = 1
    THEN \E i \in DOMAIN text : text[i] = kw[1] \/ kw[1] \in SubstringsOf(text[i])
    ELSE InText(kw, text)

udvash_keywords ==
    {<<"bn_udvash">>, <<"udvash">>, <<"bn_exam">>, <<"exam">>, <<"bn_result">>, <<"result">>, <<"bn_class">>,
     <<"class">>, <<"bn_batch">>, <<"batch">>, <<"bn_payment">>, <<"payment">>, <<"bn_online">>, <<"online">>,
     <<"mcq">>, <<"written">>, <<"w-">>, <<"bn_porikkha", "bn_dilam">>, <<"absent">>, <<"bn_submit">>,
     <<"submit">>, <<"bn_performance">>, <<"performance">>, <<"bn_offline", "bn_batch">>,
     <<"offline", "batch">>, <<"bn_helpline">>, <<"helpline">>}

medical_keywords ==
    {<<"bn_medical">>, <<"medical">>, <<"mbbs">>, <<"bds">>, <<"bn_dental">>, <<"dental">>, <<"dghs">>,
     <<"bn_health">>}

engineering_keywords ==
    {<<"bn_buet">>, <<"buet">>, <<"bn_kuet">>, <<"kuet">>, <<"bn_ruet">>, <<"ruet">>, <<"bn_cuet">>, <<"cuet">>,
     <<"bn_ckruet">>, <<"ckruet">>, <<"bn_prokoushol">>, <<"engineering">>}

university_links ==
    << [abbrev |-> "du", name |-> <<"bn_dhaka", "bn_university">>, link |-> "admission.eis.du.ac.bd"],
       [abbrev |-> "ru", name |-> <<"bn_rajshahi", "bn_university">>, link |-> "ru.ac.bd"],
       [abbrev |-> "cu", name |-> <<"bn_chattogram", "bn_university">>, link |-> "cu.ac.bd"],
       [abbrev |-> "ju", name |-> <<"bn_jahangirnagar", "bn_university">>, link |-> "juniv.edu"],
       [abbrev |-> "jnu", name |-> <<"bn_jagannath", "bn_university">>, link |-> "jnu.ac.bd"],
       [abbrev |-> "ku", name |-> <<"bn_khulna", "bn_university">>, link |-> "ku.ac.bd"],
       [abbrev |-> "buet", name |-> <<"bn_buet">>, link |-> "www.buet.ac.bd"],
       [abbrev |-> "sust", name |-> <<"bn_shahjalal", "bn_university">>, link |-> "www.sust.edu"] >>

T_UDVASH == <<"bn_apnar", "bn_proshnoti", "bn_udvash", "bn_sorasori", "bn_kono", "bn_tothyo", "bn_nei",
              "https://", "udvash.com", "/HomePage">>
T_MEDICAL == <<"bn_apnar", "bn_proshnoti", "bn_medical", "bn_amar", "bn_kache", "bn_halnagad", "bn_tothyo",
               "bn_nei", "https://", "dghs.gov.bd">>
T_ENGINEERING == <<"bn_apnar", "bn_proshnoti", "bn_prokoushol", "bn_university", "bn_amar", "bn_kache",
                   "bn_sunirdishto", "bn_tothyo", "bn_nei", "https://", "www.buet.ac.bd">>
T_UNIVERSITY(name, link) == <<"bn_apnar", "bn_proshnoti">> \o name \o
                            <<"bn_amar", "bn_kache", "bn_sunirdishto", "bn_tothyo", "bn_nei", "https://", link>>
T_GST == <<"bn_apnar", "bn_proshnoti", "bn_guccho", "bn_amar", "bn_kache", "bn_halnagad", "bn_tothyo", "bn_nei",
           "https://", "gstadmission.ac.bd">>
T_DEFAULT == <<"bn_dukkhito", "bn_apnar", "bn_proshner", "bn_sothik", "bn_uttor", "bn_dewar", "bn_jonno",
               "bn_proyojoniyo", "bn_tothyo", "bn_amar", "bn_kache", "bn_nei">>

generate_contextual_not_found_response(question) ==
    LET question_lower == Lower(question)
        hit == {k \in DOMAIN university_links :
                   \/ KeywordIn(<<university_links[k].abbrev>>, question_lower)
                   \/ InText(<<university_links[k].name[1]>>, question)}
    IN  IF \E kw \in udvash_keywords : KeywordIn(kw, question_lower) THEN T_UDVASH
        ELSE IF \E kw \in medical_keywords : KeywordIn(kw, question_lower) THEN T_MEDICAL
        ELSE IF \E kw \in engineering_keywords : KeywordIn(kw, question_lower) THEN T_ENGINEERING
        ELSE IF hit # {}
        THEN LET k == CHOOSE k \in hit : \A j \in hit : k <= j
             IN  T_UNIVERSITY(university_links[k].name, university_links[k].link)
        ELSE IF InText(<<"bn_guccho">>, question) \/ InText(<<"guccho">>, question_lower)
                \/ InText(<<"cluster">>, question_lower)
        THEN T_GST
        ELSE T_DEFAULT

-----------------------------------------------------------------------------
(* The not-found check and the references of the single-entity path *)

not_found_indicators_en ==
    {<<"not", "found">>, <<"information", "not", "found">>, <<"no", "information">>, <<"i", "don't", "have">>,
     <<"i", "do", "not", "have">>, <<"cannot", "find">>, <<"could", "not", "find">>, <<"no", "relevant">>,
     <<"no", "response", "content">>}

not_found_indicators_bn ==
    {<<"bn_tothyo", "bn_paoya", "bn_jayni">>, <<"bn_tothyo", "bn_amar", "bn_kache", "bn_nei">>,
     <<"bn_sothik", "bn_uttor", "bn_dewar", "bn_jonno", "bn_proyojoniyo", "bn_tothyo">>,
     <<"bn_jana", "bn_nei">>, <<"bn_jani", "bn_na">>, <<"bn_khunje", "bn_paoya", "bn_jayni">>}

\* any(indicator in answer_lower ...) or any(indicator in answer ...)
HasNotFoundIndicator(ans) ==
    \/ \E ind \in not_found_indicators_en : InText(ind, Lower(ans))
    \/ \E ind \in not_found_indicators_bn : InText(ind, ans)

MAX_CONTENT_CHARS == 1500
ELLIPSIS_CHARS == 3

\* the truncation without the [:1500] slice
TruncateContent_unsliced(doc) ==
    IF doc.len > MAX_CONTENT_CHARS
    THEN [toks |-> doc.toks \o <<"...">>, len |-> doc.len + ELLIPSIS_CHARS]
    ELSE doc

\* doc[:1500] + "..." if len(doc) > 1500 else doc
TruncateContent(doc) ==
    IF doc.len > MAX_CONTENT_CHARS
    THEN [toks |-> doc.toks \o <<"...">>, len |-> MAX_CONTENT_CHARS + ELLIPSIS_CHARS]
    ELSE doc

MIN_REFERENCE_SCORE == Tenths(4)
TOP_REFERENCES == 5

\* the reference loop of the single-entity path
SingleReferences(solution) ==
    LET docs == Prefix(solution.docs, TOP_REFERENCES)
        refs == [i \in DOMAIN docs |->
                    [content |-> TruncateContent(docs[i]), score |-> ScoreAt(solution.scores, i)]]
    IN  SelectPos(refs, {i \in DOMAIN refs : refs[i].score >= MIN_REFERENCE_SCORE}, 1)

-----------------------------------------------------------------------------
(* The environment of the single-entity path: hipporag.retrieve and          *)
(* hipporag.qa.  retrieve returns distinct passages of the index, ranked by *)
(* score; qa returns the solution it was given with the answer LLM's text.  *)

NonIncreasing(s) == \A i \in 1..(Len(s) - 1) : s[i] >= s[i + 1]

PassageLists(n) ==
    UNION {{d \in [1..k -> Corpus] : \A i, j \in 1..k : i # j => d[i] # d[j]} : k \in 0..n}

RetrievalResults(n) ==
    UNION {{[docs |-> d, scores |-> sc] : sc \in {x \in [1..Len(d) -> ScoreValues] : NonIncreasing(x)}}
           : d \in PassageLists(n)}

A_GROUNDED == <<"Seats", "are", "limited">>
A_NOT_FOUND_EN == <<"Information", "Not", "Found">>
A_NOT_FOUND_BN == <<"bn_dukkhito", "bn_tothyo", "bn_paoya", "bn_jayni">>
A_NOT_FOUND_LINK == <<"bn_tothyo", "bn_paoya", "bn_jayni", "HTTPS://", "udvash.com">>
A_NO_RESPONSE == <<"No", "response", "content", "available">>
A_NO_ANSWER == <<"No", "answer", "found">>

\* query_solution.answer as the answer LLM produced it (the empty text included)
QaAnswers == {<< >>, A_GROUNDED, A_NOT_FOUND_EN, A_NOT_FOUND_LINK, A_NO_RESPONSE}

\* hipporag.qa returned no solution for the query
QaNoSolution == <<"<no solution>">>

max_retries == 3
STRICT_MIN_DOCS == 3

-----------------------------------------------------------------------------
(* decompose_multi_entity_query *)

\* the literal alternatives of question_patterns, in the order of the list
question_patterns ==
    << <<"admit", "card", "bn_kobe">>, <<"admit", "card", "bn_kokhon">>, <<"admit", "card", "when">>,
       <<"bn_kobe", "admit", "card">>, <<"bn_kokhon", "admit", "card">>, <<"when", "admit", "card">>,
       <<"bn_admitcard", "bn_kobe">>, <<"bn_admitcard", "bn_kokhon">>,
       <<"bn_application", "bn_fee", "bn_koto">>, <<"bn_application", "fee", "bn_koto">>,
       <<"application", "bn_fee", "bn_koto">>, <<"application", "fee", "bn_koto">>,
       <<"bn_fee", "bn_koto">>, <<"fee", "bn_koto">>,
       <<"bn_exam", "bn_date">>, <<"bn_exam", "date">>, <<"bn_exam", "bn_kobe">>,
       <<"exam", "bn_date">>, <<"exam", "date">>, <<"exam", "bn_kobe">>,
       <<"bn_last", "bn_date">>, <<"bn_last", "date">>, <<"last", "bn_date">>, <<"last", "date">>,
       <<"bn_application", "bn_start">>, <<"bn_application", "bn_end">>,
       <<"application", "bn_start">>, <<"application", "bn_end">> >>

\* re.sub(rf'\b{abbrev}\b', '', cleaned_query, flags=re.IGNORECASE) for every entity
RemoveEntityNames(query, entities) ==
    SelectPos(query, {i \in DOMAIN query :
                         \A e \in DOMAIN entities : LowerTok(query[i]) # entities[e][1]}, 1)

decompose_query_rule_based(query, entities) ==
    LET query_lower == Lower(query)
        hits == {k \in DOMAIN question_patterns : InText(question_patterns[k], query_lower)}
        cleaned_query == RemoveEntityNames(query, entities)
        question_part == IF hits # {} THEN question_patterns[CHOOSE k \in hits : \A j \in hits : k <= j]
                         ELSE IF cleaned_query # << >> THEN cleaned_query ELSE query
    IN  [e \in DOMAIN entities |-> <<entities[e][1], entities[e][2], entities[e][2] \o question_part>>]

\* the decomposer LLM failed, or there is no API key
DecomposerError == << <<"<exception>", << >> >> >>

\* lines is the model's reply, one <<abbrev, sub_query>> per line that has a '|'
decompose_query_with_gpt4o_mini(query, entities, lines) ==
    LET known == {entities[e][1] : e \in DOMAIN entities}
        name(a) == entities[CHOOSE e \in DOMAIN entities : entities[e][1] = a][2]
        kept == SelectPos(lines, {i \in DOMAIN lines : LowerTok(lines[i][1]) \in known}, 1)
        parsed == [i \in DOMAIN kept |-> <<LowerTok(kept[i][1]), name(LowerTok(kept[i][1])), kept[i][2]>>]
    IN  IF Len(parsed) # Len(entities) THEN decompose_query_rule_based(query, entities)
        ELSE parsed

decompose_multi_entity_query(query, entities, out) ==
    IF out = DecomposerError THEN decompose_query_rule_based(query, entities)
    ELSE decompose_query_with_gpt4o_mini(query, entities, out)

\* the replies of the decomposer LLM: one line per entity; every line for the
\* first entity; one line only
DecomposerOutputs(entities) ==
    {[e \in DOMAIN entities |-> <<entities[e][1], <<entities[e][1], "admission">> >>],
     [e \in DOMAIN entities |-> <<entities[1][1], <<entities[1][1], "admission">> >>],
     << <<entities[1][1], <<entities[1][1], "admission">> >> >>}

-----------------------------------------------------------------------------
(* reciprocal_rank_fusion *)

RRF_K == 60

RECURSIVE RankSum(_, _, _, _)
RankSum(ranked_list, doc, rank, k) ==
    IF rank > Len(ranked_list) THEN 0
    ELSE (IF ranked_list[rank].doc = doc THEN ScoreScale \div (k + rank) ELSE 0)
         + RankSum(ranked_list, doc, rank + 1, k)

Max2(a, b) == IF a > b THEN a ELSE b

RECURSIVE BestOriginal(_, _, _)
BestOriginal(ranked_list, doc, rank) ==
    IF rank > Len(ranked_list) THEN 0
    ELSE Max2(IF ranked_list[rank].doc = doc THEN ranked_list[rank].score ELSE 0,
              BestOriginal(ranked_list, doc, rank + 1))

RECURSIVE Flatten(_)
Flatten(lists) == IF lists = << >> THEN << >> ELSE Head(lists) \o Flatten(Tail(lists))

\* the keys of a dict, in insertion order
AppendNew(keys, x) == IF \E i \in DOMAIN keys : keys[i] = x THEN keys ELSE Append(keys, x)

RECURSIVE FirstOccurrences(_)
FirstOccurrences(items) ==
    IF items = << >> THEN << >>
    ELSE AppendNew(FirstOccurrences(SubSeq(items, 1, Len(items) - 1)), items[Len(items)])

RECURSIVE SumSeq(_)
SumSeq(xs) == IF xs = << >> THEN 0 ELSE Head(xs) + SumSeq(Tail(xs))

RECURSIVE MaxSeq(_)
MaxSeq(xs) == IF xs = << >> THEN 0 ELSE Max2(Head(xs), MaxSeq(Tail(xs)))

\* a fusion that credits a document with its best list only
reciprocal_rank_fusion_best_only(ranked_lists, k) ==
    LET keys == FirstOccurrences(DocsOf(Flatten(ranked_lists)))
        top(doc) == MaxSeq([l \in DOMAIN ranked_lists |-> RankSum(ranked_lists[l], doc, 1, k)])
        best(doc) == MaxSeq([l \in DOMAIN ranked_lists |-> BestOriginal(ranked_lists[l], doc, 1)])
        sorted_docs == SortDesc([i \in DOMAIN keys |->
                          [doc |-> keys[i], score |-> top(keys[i]), k1 |-> top(keys[i]), k2 |-> best(keys[i])]])
    IN  [i \in DOMAIN sorted_docs |-> [doc |-> sorted_docs[i].doc, score |-> sorted_docs[i].score]]

\* ranked_lists: a sequence of sequences of [doc, score], best first
reciprocal_rank_fusion(ranked_lists, k) ==
    LET keys == FirstOccurrences(DocsOf(Flatten(ranked_lists)))
        rrf(doc) == SumSeq([l \in DOMAIN ranked_lists |-> RankSum(ranked_lists[l], doc, 1, k)])
        best(doc) == MaxSeq([l \in DOMAIN ranked_lists |-> BestOriginal(ranked_lists[l], doc, 1)])
        sorted_docs == SortDesc([i \in DOMAIN keys |->
                          [doc |-> keys[i], score |-> rrf(keys[i]), k1 |-> rrf(keys[i]), k2 |-> best(keys[i])]])
    IN  [i \in DOMAIN sorted_docs |-> [doc |-> sorted_docs[i].doc, score |-> sorted_docs[i].score]]

-----------------------------------------------------------------------------
(* deduplicate_docs *)

\* set(re.findall(r'\w+', text.lower())) of the first 500 characters
get_word_set(doc) == {LowerTok(doc.toks[i]) : i \in DOMAIN doc.toks} \ {"[", "]", "..."}

\* jaccard_similarity(a, b) > percent / 100
JaccardAbove(a, b, percent) ==
    /\ a # {} /\ b # {}
    /\ Cardinality(a \cap b) * 100 > percent * Cardinality(a \cup b)

\* the positions kept so far, with position n added unless it duplicates one of them
DedupStep(docs, percent, kept, n) ==
    IF \E j \in kept : JaccardAbove(get_word_set(docs[n]), get_word_set(docs[j]), percent)
    THEN kept ELSE kept \cup {n}

RECURSIVE DedupKeep(_, _, _)
DedupKeep(docs, percent, n) ==
    IF n = 0 THEN {} ELSE DedupStep(docs, percent, DedupKeep(docs, percent, n - 1), n)

deduplicate_docs(docs, scores, percent) ==
    LET keep == DedupKeep(docs, percent, Len(docs))
    IN  [docs |-> SelectPos(docs, keep, 1),
         scores |-> SelectPos([i \in DOMAIN docs |-> ScoreAt(scores, i)], keep, 1)]

-----------------------------------------------------------------------------
(* run_decomposed_retrieval: the worker retrieve_for_entity *)

\* get_intent_retrieval_params(intent)['top_k']
get_intent_top_k(intent) ==
    CASE intent = "date" -> 15
      [] intent = "fee" -> 12
      [] intent = "admit_card" -> 12
      [] OTHER -> 10

medical_doc_keywords ==
    {<<"bn_medical">>, <<"medical">>, <<"mbbs">>, <<"bds">>, <<"bn_mbbs">>, <<"bn_bds">>, <<"dgme">>,
     <<"bn_health", "bn_education">>}

schedule_indicators ==
    {<<"bn_schedule">>, <<"bn_exam", "bn_date", "bn_and", "bn_time">>, <<"bn_exam", "bn_date">>,
     <<"bn_admission", "bn_related", "bn_schedule">>}

\* the priority boost of a passage; "bn_dated" stands for a text date_pattern
\* matches and "bn_row_g" for the schedule row marker
SchedulePriority(doc) ==
    (IF \E ind \in schedule_indicators : InText(ind, doc.toks) THEN 2 ELSE 0)
    + (IF InText(<<"bn_dated">>, doc.toks) THEN 3 ELSE 0)
    + (IF InText(<<"bn_row_g">>, doc.toks) THEN 1 ELSE 0)

WORKER_TOP_DOCS == 12
DEDUP_PERCENT == 85

EmptyResult == [docs |-> << >>, scores |-> << >>]

Ranked(res, top_k) ==
    [i \in DOMAIN Prefix(res.docs, top_k) |-> [doc |-> res.docs[i], score |-> ScoreAt(res.scores, i)]]

\* RRF FUSION of both passes
FusePasses(sem, bm, top_k) ==
    LET ranked_lists == (IF sem.docs # << >> THEN <<Ranked(sem, top_k)>> ELSE << >>)
                        \o (IF bm.docs # << >> THEN <<Ranked(bm, top_k)>> ELSE << >>)
        fused_results == reciprocal_rank_fusion(ranked_lists, RRF_K)
    IN  IF Len(ranked_lists) > 1
        THEN [docs |-> DocsOf(fused_results), scores |-> ScoresOf(fused_results), fusion_method |-> "RRF"]
        ELSE IF sem.docs # << >>
        THEN [docs |-> sem.docs, scores |-> sem.scores, fusion_method |-> "Semantic"]
        ELSE [docs |-> << >>, scores |-> << >>, fusion_method |-> "None"]

\* ENTITY-SPECIFIC FILTERING
EntityFilter(abbrev, all) ==
    IF abbrev \in FilterAbbrevs /\ all.docs # << >>
    THEN filter_documents_by_university(all.docs, all.scores, abbrev, FALSE)
    ELSE [docs |-> all.docs, scores |-> all.scores]

\* Special filtering for medical documents
MedicalFilter(abbrev, all) ==
    LET keep == {i \in DOMAIN all.docs :
                    \E kw \in medical_doc_keywords : InText(kw, Lower(all.docs[i].toks))}
    IN  IF abbrev = "medical" /\ all.docs # << >> /\ keep # {}
        THEN [docs |-> SelectPos(all.docs, keep, 1),
              scores |-> SelectPos([i \in DOMAIN all.docs |-> ScoreAt(all.scores, i)], keep, 1)]
        ELSE all

\* SCHEDULE PRIORITIZATION for date queries
SchedulePrioritize(intent, all) ==
    LET scored_docs == SortDesc([i \in DOMAIN all.docs |->
                           [doc |-> all.docs[i], score |-> ScoreAt(all.scores, i),
                            k1 |-> SchedulePriority(all.docs[i]), k2 |-> ScoreAt(all.scores, i)]])
    IN  IF intent = "date" /\ all.docs # << >>
        THEN [docs |-> DocsOf(scored_docs), scores |-> ScoresOf(scored_docs)]
        ELSE all

\* DEDUPLICATION
Deduplicate(all) ==
    IF all.docs # << >> THEN deduplicate_docs(all.docs, all.scores, DEDUP_PERCENT) ELSE all

\* the tuple the worker returns, as the entry the collector stores
WorkerEntry(entity_info, fusion_method, all) ==
    [abbrev |-> entity_info[1], entity_name |-> entity_info[2],
     docs |-> Prefix(all.docs, WORKER_TOP_DOCS), scores |-> Prefix(all.scores, WORKER_TOP_DOCS),
     sub_query |-> entity_info[3], fusion_method |-> fusion_method,
     error |-> FALSE, coverage_count |-> None]

\* sem: what hipporag.retrieve returned (EmptyResult when it raised);
\* bm: the passages of the BM25 pass (EmptyResult when the pass is skipped)
retrieve_for_entity(entity_info, intent, sem, bm) ==
    WorkerEntry(entity_info, FusePasses(sem, bm, get_intent_top_k(intent)).fusion_method,
        Deduplicate(SchedulePrioritize(intent, MedicalFilter(entity_info[1],
            EntityFilter(entity_info[1], FusePasses(sem, bm, get_intent_top_k(intent)))))))

\* the entry the collector stores for a worker that raised
FailedEntry(entity_info) ==
    [abbrev |-> entity_info[1], entity_name |-> entity_info[2], docs |-> << >>, scores |-> << >>,
     sub_query |-> entity_info[3], fusion_method |-> None, error |-> TRUE, coverage_count |-> None]

\* results[abbrev] = entity_data on a dict that keeps insertion order
DictSet(results, entry) ==
    IF \E i \in DOMAIN results : results[i].abbrev = entry.abbrev
    THEN [i \in DOMAIN results |-> IF results[i].abbrev = entry.abbrev THEN entry ELSE results[i]]
    ELSE Append(results, entry)

MIN_DOCS_PER_ENTITY == 3

ensure_minimum_coverage(results, min_docs_per_entity) ==
    [i \in DOMAIN results |-> [results[i] EXCEPT !.coverage_count = Len(results[i].docs)]]

\* the passages a worker's passes can return
SubResults(n) ==
    UNION {{[docs |-> d, scores |-> sc] : sc \in {x \in [1..Len(d) -> ScoreValues] : NonIncreasing(x)}}
           : d \in PassageLists(n)}

-----------------------------------------------------------------------------
(* build_slot_aware_answer and the references of the multi-entity path *)

A_SORRY == <<"bn_dukkhito", "bn_uttor", "bn_toiri", "bn_korte", "bn_somossa">>
SynthesisError == <<"<exception>">>

\* what the synthesis LLM can reply when it is given passages
SynthesisOutputs == {A_GROUNDED, A_NOT_FOUND_BN, SynthesisError}

TOP_PER_ENTITY == 3
MAX_REFERENCES == 10
DISPLAY_SCORE_FLOOR == Tenths(5)

MultiReferences(results) ==
    LET per(e) == [i \in DOMAIN Prefix(results[e].docs, TOP_PER_ENTITY) |->
                      [doc |-> results[e].docs[i],
                       score |-> IF i <= Len(results[e].scores) THEN results[e].scores[i]
                                 ELSE DISPLAY_SCORE_FLOOR]]
        top == Prefix(Flatten([e \in DOMAIN results |-> per(e)]), MAX_REFERENCES)
    IN  [i \in DOMAIN top |->
            [content |-> TruncateContent(top[i].doc),
             score |-> IF top[i].score > DISPLAY_SCORE_FLOOR THEN top[i].score ELSE DISPLAY_SCORE_FLOOR]]

-----------------------------------------------------------------------------
(* The LLM gateway GeminiLLM.infer: @cache_response around                  *)
(* @dynamic_retry_decorator around the remote call.  Callers are threads or *)
(* processes that share the cache file; the file lock is held during the   *)
(* lookup and during the store, and released in between.                   *)

MaxCallers == 2     \* concurrent callers of the gateway

Callers == 1..MaxCallers

GATEWAY_MAX_RETRIES == 3

\* the arguments of a call: the messages; model, seed and temperature come
\* from llm_config.generate_params
LlmMessages == {<<"user", "q1">>, <<"user", "q2">>}
LlmRequests == {[messages |-> m, model |-> "gemini/llm_name", seed |-> 0, temperature |-> 0]
                   : m \in LlmMessages}

\* sha256 of json.dumps(key_data, sort_keys=True): the four fields in the
\* order of their names; distinct key strings have distinct hashes
key_hash(req) == <<"sha256", req.messages, req.model, req.seed, req.temperature>>

\* what the remote model can answer, and the exceptions litellm.completion raises
LlmContents == {"content_a", "content_b"}
PermanentErrors == {"AuthenticationError"}
TransientErrors == {"Timeout"}
LlmErrors == PermanentErrors \cup TransientErrors

IdleCall == [pc |-> "idle", key |-> << >>, attempts |-> 0, error |-> None, message |-> None,
             cache_hit |-> FALSE]

InitGateway ==
    /\ llm_cache = {}
    /\ llm_call = [p \in Callers |-> IdleCall]
    /\ llm_hits = {}
    /\ llm_lock = 0

\* SELECT message, metadata FROM cache WHERE key = ?
CacheRows(key) == {row \in llm_cache : row.key = key}

\* cache_response, first half: `with FileLock(lock_file)` before the lookup;
\* the caller waits while another caller holds the lock
LookupLock(p, req) ==
    /\ llm_call[p].pc = "idle"
    /\ llm_lock = 0
    /\ llm_lock' = p
    /\ llm_call' = [llm_call EXCEPT ![p] = [IdleCall EXCEPT !.pc = "lookup", !.key = key_hash(req)]]
    /\ UNCHANGED <<askVars, fin, fout, llm_cache, llm_hits>>

\* the lookup under the file lock; a hit returns (message, metadata, True), a
\* miss goes on to the decorated function; either way the lock is released
InferLookup(p) ==
    /\ llm_call[p].pc = "lookup"
    /\ LET key == llm_call[p].key
       IN  IF CacheRows(key) # {}
           THEN \E row \in CacheRows(key) :
                   /\ llm_call' = [llm_call EXCEPT ![p] = [IdleCall EXCEPT !.pc = "returned", !.key = key,
                                                             !.message = row.message, !.cache_hit = TRUE]]
                   /\ llm_hits' = llm_hits \cup {<<key, row.message>>}
           ELSE /\ llm_call' = [llm_call EXCEPT ![p] = [IdleCall EXCEPT !.pc = "infer", !.key = key]]
                /\ UNCHANGED llm_hits
    /\ llm_lock' = IF llm_lock = p THEN 0 ELSE llm_lock
    /\ UNCHANGED <<askVars, fin, fout, llm_cache>>

\* a retry loop that allows one attempt more
InferAttempt_one_more(p) ==
    /\ llm_call[p].pc = "infer"
    /\ \E outcome \in LlmContents \cup LlmErrors :
          LET n == llm_call[p].attempts + 1
          IN  llm_call' = [llm_call EXCEPT ![p] =
                  IF outcome \in LlmContents
                  THEN [@ EXCEPT !.pc = "store", !.attempts = n, !.message = outcome]
                  ELSE [@ EXCEPT !.pc = IF n > GATEWAY_MAX_RETRIES THEN "raised" ELSE "infer",
                                 !.attempts = n, !.error = outcome]]
    /\ UNCHANGED <<askVars, fin, fout, llm_cache, llm_hits, llm_lock>>

\* dynamic_retry_decorator: retry(stop=stop_after_attempt(max_retries),
\* wait=wait_fixed(1)) around one remote call; any exception is retried until
\* the attempts are used up, then tenacity raises RetryError
InferAttempt(p) ==
    /\ llm_call[p].pc = "infer"
    /\ \E outcome \in LlmContents \cup LlmErrors :
          LET n == llm_call[p].attempts + 1
          IN  llm_call' = [llm_call EXCEPT ![p] =
                  IF outcome \in LlmContents
                  THEN [@ EXCEPT !.pc = "store", !.attempts = n, !.message = outcome]
                  ELSE [@ EXCEPT !.pc = IF n >= GATEWAY_MAX_RETRIES THEN "raised" ELSE "infer",
                                 !.attempts = n, !.error = outcome]]
    /\ UNCHANGED <<askVars, fin, fout, llm_cache, llm_hits, llm_lock>>

\* a store that does not take the file lock
StoreLock_unlocked(p) ==
    /\ llm_call[p].pc = "store"
    /\ llm_call' = [llm_call EXCEPT ![p].pc = "storing"]
    /\ UNCHANGED <<askVars, fin, fout, llm_cache, llm_hits, llm_lock>>

\* cache_response, second half: `with FileLock(lock_file)` before the store
StoreLock(p) ==
    /\ llm_call[p].pc = "store"
    /\ llm_lock = 0
    /\ llm_lock' = p
    /\ llm_call' = [llm_call EXCEPT ![p].pc = "storing"]
    /\ UNCHANGED <<askVars, fin, fout, llm_cache, llm_hits>>

\* INSERT OR REPLACE INTO cache, commit, close; the lock is released and the
\* call returns (message, metadata, False)
InferStore(p) ==
    /\ llm_call[p].pc = "storing"
    /\ llm_cache' = {row \in llm_cache : row.key # llm_call[p].key}
                       \cup {[key |-> llm_call[p].key, message |-> llm_call[p].message]}
    /\ llm_call' = [llm_call EXCEPT ![p].pc = "returned"]
    /\ llm_lock' = IF llm_lock = p THEN 0 ELSE llm_lock
    /\ UNCHANGED <<askVars, fin, fout, llm_hits>>

\* the call has returned or raised; the caller is free for its next call
InferDone(p) ==
    /\ llm_call[p].pc \in {"returned", "raised"}
    /\ llm_call' = [llm_call EXCEPT ![p] = IdleCall]
    /\ UNCHANGED <<askVars, fin, fout, llm_cache, llm_hits, llm_lock>>

-----------------------------------------------------------------------------
(* The /ask handler *)

InitAsk ==
    /\ hipporag_instance = None
    /\ pc = "idle"
    /\ request = NoneValue
    /\ original_question = NoText
    /\ working_question = NoText
    /\ detected_entities = << >>
    /\ query_intent = None
    /\ queried_university = None
    /\ attempt = 0
    /\ retrieved = NoneValue
    /\ qs = NoneValue
    /\ query_solution = NoneValue
    /\ answer = NoText
    /\ sub_queries = << >>
    /\ pending = {}
    /\ entity_results = << >>
    /\ calls = {}
    /\ response = NoneValue
    /\ InitGateway

Init ==
    /\ InitAsk
    /\ fin = NoneValue
    /\ fout = NoneValue

\* POST /index, POST /index-folder, POST /reload, auto_load_hipporag
IndexDocuments ==
    /\ pc = "idle"
    /\ hipporag_instance' = "loaded"
    /\ UNCHANGED <<pc, request, original_question, working_question, detected_entities, query_intent,
                   queried_university, attempt, retrieved, qs, query_solution, answer, sub_queries,
                   pending, entity_results, calls, response, fin, fout, llmVars>>

\* the entry of ask_question without the precondition of get_hipporag
AskQuestion_unchecked(q) ==
    /\ pc = "idle"
    /\ request' = [question |-> q]
    /\ original_question' = q
    /\ working_question' = q
    /\ pc' = IF is_query_unclear(q) THEN "rewrite" ELSE "analyze"
    /\ UNCHANGED <<hipporag_instance, detected_entities, query_intent, queried_university, attempt,
                   retrieved, qs, query_solution, answer, sub_queries, pending, entity_results, calls,
                   response, fin, fout, llmVars>>

\* get_hipporag and STEP 0 up to the clarity test
AskQuestion(q) ==
    /\ pc = "idle"
    /\ request' = [question |-> q]
    /\ IF hipporag_instance = None
       THEN /\ response' = [status |-> 400, detail |-> "HippoRAG not initialized. Call /index or /index-folder first."]
            /\ pc' = "done"
            /\ UNCHANGED <<original_question, working_question>>
       ELSE /\ original_question' = q
            /\ working_question' = q
            /\ pc' = IF is_query_unclear(q) THEN "rewrite" ELSE "analyze"
            /\ UNCHANGED response
    /\ UNCHANGED <<hipporag_instance, detected_entities, query_intent, queried_university, attempt,
                   retrieved, qs, query_solution, answer, sub_queries, pending, entity_results, calls,
                   fin, fout, llmVars>>

\* STEP 0, unclear branch: the rewriter LLM is called
Rewrite ==
    /\ pc = "rewrite"
    /\ \E out \in RewriterOutputs \cup {RewriterError} :
          working_question' = rewrite_query_with_gpt4o_mini(request.question, out)
    /\ calls' = calls \cup {"rewrite_llm"}
    /\ pc' = "analyze"
    /\ UNCHANGED <<hipporag_instance, request, original_question, detected_entities, query_intent,
                   queried_university, attempt, retrieved, qs, query_solution, answer, sub_queries,
                   pending, entity_results, response, fin, fout, llmVars>>

\* the early coaching check without the .lower()
ask_coaching_check_raw(query) == AnyInText(strong_coaching_patterns, query)

\* the early coaching check of ask_question
ask_coaching_check(query) == AnyInText(strong_coaching_patterns, Lower(query))

\* the canned coaching response echoing the working question
CoachingResponse_working ==
    [status |-> 200, question |-> working_question, answer |-> coaching_not_found, references |-> << >>]

\* the canned coaching response (both places that return it)
CoachingResponse ==
    [status |-> 200, question |-> original_question, answer |-> coaching_not_found, references |-> << >>]

\* early coaching check, STEP 1 and the choice of the path
AnalyzeQuery ==
    /\ pc = "analyze"
    /\ IF ask_coaching_check(working_question)
       THEN /\ response' = CoachingResponse
            /\ pc' = "done"
            /\ UNCHANGED <<detected_entities, query_intent, queried_university, attempt, calls>>
       ELSE /\ detected_entities' = detect_entities_in_query(working_question)
            /\ query_intent' = detect_query_intent(working_question)
            /\ calls' = calls \cup {"detect_entities", "detect_intent"}
            /\ IF Len(detected_entities') > 1
               THEN /\ pc' = "decompose"
                    /\ UNCHANGED <<queried_university, attempt>>
               ELSE /\ queried_university' = get_queried_university(working_question)
                    /\ attempt' = 1
                    /\ pc' = "single"
            /\ UNCHANGED response
    /\ UNCHANGED <<hipporag_instance, request, original_question, working_question, retrieved, qs,
                   query_solution, answer, sub_queries, pending, entity_results, fin, fout, llmVars>>

\* one iteration of the retry loop of the single-entity path: retrieve,
\* strict university filter, answer.  The index does not change during a
\* request and retrieval is a function of query and index, so a retry
\* retrieves what the first attempt retrieved.
SingleAttempt ==
    /\ pc = "single"
    /\ \E r \in (IF attempt = 1 THEN RetrievalResults(MaxDocs) ELSE {retrieved}) :
       \E out \in QaAnswers \cup {QaNoSolution} :
          LET applies == queried_university # None /\ r.docs # << >>
              filtered == strict_university_filter(r.docs, r.scores, queried_university, STRICT_MIN_DOCS)
              handed == IF applies /\ filtered.docs # << >> THEN filtered ELSE r
              new_answer == IF out # << >> THEN out ELSE A_NO_ANSWER
              valid == out # QaNoSolution /\ ~InText(A_NO_RESPONSE, new_answer)
          IN  /\ retrieved' = r
              /\ IF applies /\ filtered.docs = << >> /\ queried_university = "coaching"
                 THEN /\ response' = CoachingResponse
                      /\ calls' = calls \cup {"retrieve", "strict_filter"}
                      /\ pc' = "done"
                      /\ UNCHANGED <<qs, query_solution, answer, attempt>>
                 ELSE /\ qs' = handed
                      /\ calls' = calls \cup {"retrieve", "answer_llm"}
                                        \cup (IF applies THEN {"strict_filter"} ELSE {})
                      /\ IF out = QaNoSolution
                         THEN UNCHANGED <<query_solution, answer>>
                         ELSE /\ query_solution' = handed
                              /\ answer' = new_answer
                      /\ IF valid \/ attempt = max_retries
                         THEN pc' = "finalize" /\ UNCHANGED attempt
                         ELSE pc' = "single" /\ attempt' = attempt + 1
                      /\ UNCHANGED response
    /\ UNCHANGED <<hipporag_instance, request, original_question, working_question, detected_entities,
                   query_intent, queried_university, sub_queries, pending, entity_results, fin, fout, llmVars>>

\* Step 2 of the multi-entity path: the decomposer
Decompose ==
    /\ pc = "decompose"
    /\ \E out \in DecomposerOutputs(detected_entities) \cup {DecomposerError} :
          sub_queries' = decompose_multi_entity_query(working_question, detected_entities, out)
    /\ pending' = DOMAIN sub_queries'
    /\ entity_results' = << >>
    /\ calls' = calls \cup {"decompose"}
    /\ pc' = "workers"
    /\ UNCHANGED <<hipporag_instance, request, original_question, working_question, detected_entities,
                   query_intent, queried_university, attempt, retrieved, qs, query_solution, answer,
                   response, fin, fout, llmVars>>

\* a worker of the pool returns and as_completed hands its result to the collector
WorkerDone(i) ==
    /\ pc = "workers"
    /\ i \in pending
    /\ \E sem \in SubResults(MaxSubDocs) :
       \E bm \in (IF query_intent \in {"date", "fee", "admit_card"} THEN SubResults(MaxBm25Docs)
                  ELSE {EmptyResult}) :
          entity_results' = DictSet(entity_results, retrieve_for_entity(sub_queries[i], query_intent, sem, bm))
    /\ pending' = pending \ {i}
    /\ calls' = calls \cup {"retrieve"}
    /\ UNCHANGED <<hipporag_instance, pc, request, original_question, working_question, detected_entities,
                   query_intent, queried_university, attempt, retrieved, qs, query_solution, answer,
                   sub_queries, response, fin, fout, llmVars>>

\* a worker of the pool raises: the collector stores an empty entry for its entity
WorkerFailed(i) ==
    /\ pc = "workers"
    /\ i \in pending
    /\ entity_results' = DictSet(entity_results, FailedEntry(sub_queries[i]))
    /\ pending' = pending \ {i}
    /\ UNCHANGED <<hipporag_instance, pc, request, original_question, working_question, detected_entities,
                   query_intent, queried_university, attempt, retrieved, qs, query_solution, answer,
                   sub_queries, calls, response, fin, fout, llmVars>>

\* every worker has finished: coverage, Step 4 (synthesis), references, response
Synthesize ==
    /\ pc = "workers"
    /\ pending = {}
    /\ LET results == ensure_minimum_coverage(entity_results, MIN_DOCS_PER_ENTITY)
           has_docs == \E e \in DOMAIN results : results[e].docs # << >>
       IN  /\ entity_results' = results
           /\ IF has_docs
              THEN /\ \E out \in SynthesisOutputs :
                         answer' = IF out = SynthesisError THEN A_SORRY ELSE out
                   /\ calls' = calls \cup {"answer_llm"}
              ELSE /\ answer' = generate_contextual_not_found_response(working_question)
                   /\ calls' = calls \cup {"not_found_responder"}
           /\ response' = [status |-> 200, question |-> original_question, answer |-> answer',
                           references |-> MultiReferences(results)]
    /\ pc' = "done"
    /\ UNCHANGED <<hipporag_instance, request, original_question, working_question, detected_entities,
                   query_intent, queried_university, attempt, retrieved, qs, query_solution, sub_queries,
                   pending, fin, fout, llmVars>>

\* the not-found check, the references and the response of the single-entity path
Finalize ==
    /\ pc = "finalize"
    /\ LET no_answer == answer = NoText
           is_not_found == no_answer \/ HasNotFoundIndicator(answer)
           replace == \/ no_answer
                      \/ /\ is_not_found
                         /\ ~InText(<<"udvash.com">>, Lower(answer))
                         /\ ~InText(<<"https://">>, Lower(answer))
           references == IF query_solution # NoneValue /\ ~is_not_found
                         THEN SingleReferences(query_solution) ELSE << >>
       IN  /\ answer' = IF replace THEN generate_contextual_not_found_response(original_question)
                        ELSE answer
           /\ calls' = calls \cup (IF replace THEN {"not_found_responder"} ELSE {})
           /\ response' = [status |-> 200, question |-> original_question, answer |-> answer',
                           references |-> references]
    /\ pc' = "done"
    /\ UNCHANGED <<hipporag_instance, request, original_question, working_question, detected_entities,
                   query_intent, queried_university, attempt, retrieved, qs, query_solution, sub_queries,
                   pending, entity_results, fin, fout, llmVars>>

\* str(e) of the exceptions a stage of the pipeline can raise: the LLM gateway's
\* retries are exhausted on an authentication failure or on a timeout
E_AUTH == "RetryError[<Future state=finished raised AuthenticationError>]"
E_TIMEOUT == "RetryError[<Future state=finished raised Timeout>]"
PipelineExceptions == {E_AUTH, E_TIMEOUT}

\* except Exception as e: raise HTTPException(status_code=500, detail=str(e))
PipelineError ==
    /\ pc \in {"decompose", "workers", "single"}
    /\ \E e \in PipelineExceptions : response' = [status |-> 500, detail |-> e]
    /\ pc' = "done"
    /\ UNCHANGED <<hipporag_instance, request, original_question, working_question, detected_entities,
                   query_intent, queried_university, attempt, retrieved, qs, query_solution, answer,
                   sub_queries, pending, entity_results, calls, fin, fout, llmVars>>

\* POST /index, POST /index-folder failing with HTTP 500: HippoRAG(...) raised
\* and the global is as it was, or index(docs=...) raised after the global
\* was bound to the new object (whose index is whatever index() got done)
IndexDocumentsFailed ==
    /\ pc = "idle"
    /\ hipporag_instance' \in {hipporag_instance, "loaded"}
    /\ \E e \in PipelineExceptions : response' = [status |-> 500, detail |-> e]
    /\ pc' = "done"
    /\ UNCHANGED <<request, original_question, working_question, detected_entities, query_intent,
                   queried_university, attempt, retrieved, qs, query_solution, answer, sub_queries,
                   pending, entity_results, calls, fin, fout, llmVars>>

\* the response is sent; the handler's locals are gone
ReturnResponse ==
    /\ pc = "done"
    /\ pc' = "idle"
    /\ request' = NoneValue
    /\ original_question' = NoText
    /\ working_question' = NoText
    /\ detected_entities' = << >>
    /\ query_intent' = None
    /\ queried_university' = None
    /\ attempt' = 0
    /\ retrieved' = NoneValue
    /\ qs' = NoneValue
    /\ query_solution' = NoneValue
    /\ answer' = NoText
    /\ sub_queries' = << >>
    /\ pending' = {}
    /\ entity_results' = << >>
    /\ calls' = {}
    /\ response' = NoneValue
    /\ UNCHANGED <<hipporag_instance, fin, fout, llmVars>>

Next ==
    \/ IndexDocuments
    \/ IndexDocumentsFailed
    \/ \E q \in Questions : AskQuestion(q)
    \/ Rewrite
    \/ AnalyzeQuery
    \/ Decompose
    \/ \E i \in 1..MaxEntities : WorkerDone(i)
    \/ \E i \in 1..MaxEntities : WorkerFailed(i)
    \/ Synthesize
    \/ SingleAttempt
    \/ Finalize
    \/ PipelineError
    \/ ReturnResponse

Spec == Init /\ [][Next]_vars

-----------------------------------------------------------------------------
(* The two university filters as pure functions: every call on a ranked     *)
(* passage list of the index, for every abbreviation of the table.          *)

\* the calls: strict_university_filter with the default min_docs and with the
\* min_docs of its call site; filter_documents_by_university with either value
\* of strict
FilterCallKinds ==
    {[fn |-> "strict", min_docs |-> 2, strict |-> FALSE],
     [fn |-> "strict", min_docs |-> STRICT_MIN_DOCS, strict |-> FALSE],
     [fn |-> "filter", min_docs |-> 0, strict |-> FALSE],
     [fn |-> "filter", min_docs |-> 0, strict |-> TRUE]}

InitFilter ==
    /\ InitAsk
    /\ \E r \in RetrievalResults(MaxDocs) : \E u \in FilterAbbrevs : \E c \in FilterCallKinds :
          fin = [fn |-> c.fn, docs |-> r.docs, scores |-> r.scores, queried_uni |-> u,
                 min_docs |-> c.min_docs, strict |-> c.strict]
    /\ fout = NoneValue

CallStrictFilter ==
    /\ fout = NoneValue
    /\ fin.fn = "strict"
    /\ fout' = strict_university_filter(fin.docs, fin.scores, fin.queried_uni, fin.min_docs)
    /\ UNCHANGED <<askVars, fin, llmVars>>

CallFilter ==
    /\ fout = NoneValue
    /\ fin.fn = "filter"
    /\ fout' = filter_documents_by_university(fin.docs, fin.scores, fin.queried_uni, fin.strict)
    /\ UNCHANGED <<askVars, fin, llmVars>>

NextFilter == CallStrictFilter \/ CallFilter

SpecFilter == InitFilter /\ [][NextFilter]_vars

-----------------------------------------------------------------------------
(* reciprocal_rank_fusion on its own: the ranked lists are the lists a      *)
(* worker builds from its retrieval passes, each of distinct passages.     *)

MaxFusedLists == 2  \* most ranked lists fused in one call
MaxRankedDocs == 2  \* longest ranked list

InitRRF ==
    /\ InitAsk
    /\ \E n \in 0..MaxFusedLists :
       \E ls \in [1..n -> {Ranked(r, MaxRankedDocs) : r \in SubResults(MaxRankedDocs)}] :
          fin = [fn |-> "rrf", ranked_lists |-> ls]
    /\ fout = NoneValue

CallRRF ==
    /\ fout = NoneValue
    /\ fin.fn = "rrf"
    /\ fout' = [results |-> reciprocal_rank_fusion(fin.ranked_lists, RRF_K)]
    /\ UNCHANGED <<askVars, fin, llmVars>>

SpecRRF == InitRRF /\ [][CallRRF]_vars

-----------------------------------------------------------------------------
(* BM25Retriever.search.  The raw scores are those of BM25Okapi.get_scores, *)
(* one per indexed document; a normalised score s is the integer            *)
(* s * NormScale, exact because NormScale is a multiple of every            *)
(* difference of two raw scores of the model.  np.argsort does not fix the  *)
(* order of equal scores: any order of the ties can be returned.  Document  *)
(* ids are positions, counted from 1.                                       *)

MaxIndexDocs == 3   \* documents in the BM25 index

RawScoreValues == -1..2

\* the normalised score 1
NormScale == 3 * 4 * 5

ArrMax(scores) == CHOOSE x \in {scores[i] : i \in DOMAIN scores} : \A i \in DOMAIN scores : x >= scores[i]
ArrMin(scores) == CHOOSE x \in {scores[i] : i \in DOMAIN scores} : \A i \in DOMAIN scores : x <= scores[i]

\* (scores - scores.min()) / (scores.max() - scores.min()), or zeros
MinMaxNormalize(scores) ==
    IF ArrMax(scores) > ArrMin(scores)
    THEN [i \in DOMAIN scores |->
             ((scores[i] - ArrMin(scores)) * NormScale) \div (ArrMax(scores) - ArrMin(scores))]
    ELSE [i \in DOMAIN scores |-> 0]

\* np.argsort(scores)[::-1]: the orders of the ids by non-increasing score
ArgsortDescending(scores) ==
    {ids \in [DOMAIN scores -> DOMAIN scores] :
        /\ \A i, j \in DOMAIN ids : ids[i] = ids[j] => i = j
        /\ NonIncreasing([i \in DOMAIN ids |-> scores[ids[i]]])}

\* a search that returns the raw scores
BM25Retriever_search_raw(initialized, raw, top_k) ==
    IF ~initialized THEN {[ids |-> << >>, scores |-> << >>]}
    ELSE {[ids |-> IF top_k # 0 THEN Prefix(sorted_ids, top_k) ELSE sorted_ids,
           scores |-> IF top_k # 0 THEN Prefix([i \in DOMAIN sorted_ids |-> raw[sorted_ids[i]]], top_k)
                      ELSE [i \in DOMAIN sorted_ids |-> raw[sorted_ids[i]]]]
             : sorted_ids \in ArgsortDescending(raw)}

\* the results search can return; top_k = 0 stands for top_k = None
BM25Retriever_search(initialized, raw, top_k) ==
    IF ~initialized THEN {[ids |-> << >>, scores |-> << >>]}
    ELSE {[ids |-> IF top_k # 0 THEN Prefix(sorted_ids, top_k) ELSE sorted_ids,
           scores |-> IF top_k # 0
                      THEN Prefix([i \in DOMAIN sorted_ids |-> MinMaxNormalize(raw)[sorted_ids[i]]], top_k)
                      ELSE [i \in DOMAIN sorted_ids |-> MinMaxNormalize(raw)[sorted_ids[i]]]]
             : sorted_ids \in ArgsortDescending(MinMaxNormalize(raw))}

InitBM25 ==
    /\ InitAsk
    /\ \E n \in 1..MaxIndexDocs : \E raw \in [1..n -> RawScoreValues] :
       \E top_k \in 0..MaxIndexDocs : \E initialized \in BOOLEAN :
          fin = [fn |-> "bm25", initialized |-> initialized, raw |-> raw, top_k |-> top_k]
    /\ fout = NoneValue

CallBM25Search ==
    /\ fout = NoneValue
    /\ fin.fn = "bm25"
    /\ fout' \in BM25Retriever_search(fin.initialized, fin.raw, fin.top_k)
    /\ UNCHANGED <<askVars, fin, llmVars>>

SpecBM25 == InitBM25 /\ [][CallBM25Search]_vars

-----------------------------------------------------------------------------
(* expand_query.  A rule is one entry of UNIVERSITY_EXPANSION_MAP or one of *)
(* the keyword groups of the function: its keys are searched in the         *)
(* lower-cased query and its expansion is appended on a match.  Words are   *)
(* tokens; a key matches where its tokens occur in the query.               *)

MaxQueryLen == 2   \* words of an expanded query

QueryWords == {"KU", "bn_khubi", "fee", "exam", "bn_manobik", "commerce", "seat", "hello"}

SEAT_EXPANSION == <<"bn_ason", "bn_songkhya", "bn_ason", "bn_bonton", "bn_mot", "bn_ason">>
NON_SCIENCE_EXPANSION ==
    <<"bn_obiggan", "bn_shakha", "bn_obiggan", "bn_shakhar", "bn_porikkharthider", "bn_ason", "bn_bonton">>

ExpansionRules ==
    << [keys |-> << <<"ku">> >>,
        expansion |-> <<"bn_khulna", "bn_bishwobidyaloy", "Khulna", "University", "KU", "bn_khubi">>],
       [keys |-> << <<"bn_khubi">> >>,
        expansion |-> <<"bn_khulna", "bn_bishwobidyaloy", "Khulna", "University", "KU">>],
       [keys |-> << <<"exam">>, <<"kobe">>, <<"kokhon">>, <<"bn_kobe">>, <<"bn_kokhon">>, <<"bn_tarikh">>,
                    <<"date">>, <<"schedule">>, <<"bn_somoysuchi">> >>,
        expansion |-> <<"bn_vorti", "bn_porikkhar", "bn_somoysuchi", "bn_tarikh", "bn_porikkha", "bn_kobe", "bn_hobe">>],
       [keys |-> << <<"fee">>, <<"fees">>, <<"bn_fee">>, <<"bn_koto">>, <<"bn_taka">>, <<"bn_khoroch">>,
                    <<"cost">>, <<"price">>, <<"bn_abedon", "bn_fee">> >>,
        expansion |-> <<"bn_abedon", "bn_fee", "bn_taka", "bn_khoroch">>],
       [keys |-> << <<"apply">>, <<"bn_abedon">>, <<"application">>, <<"bn_kivabe">>, <<"bn_prokriya">>,
                    <<"process">> >>,
        expansion |-> <<"bn_abedon", "bn_prokriya", "bn_koroniyo">>],
       [keys |-> << <<"bn_manobik">>, <<"manobik">>, <<"manbik">> >>,
        expansion |-> NON_SCIENCE_EXPANSION],
       [keys |-> << <<"bn_banijjo">>, <<"banijjo">>, <<"commerce">> >>,
        expansion |-> NON_SCIENCE_EXPANSION],
       [keys |-> << <<"bn_ason">>, <<"seat">>, <<"ason">>, <<"bn_songkhya">>, <<"bn_koto">> >>,
        expansion |-> SEAT_EXPANSION] >>

\* set(expanded_terms): the expansions of the rules that match the query
expanded_terms(query) ==
    {ExpansionRules[r].expansion : r \in {x \in DOMAIN ExpansionRules : AnyInText(ExpansionRules[x].keys, Lower(query))}}

\* the orders in which " ".join(set(...)) can lay out the terms
JoinOrders(terms) ==
    {o \in [1..Cardinality(terms) -> terms] : \A i, j \in DOMAIN o : o[i] = o[j] => i = j}

\* the texts expand_query can return for the query
expand_query(query) ==
    IF expanded_terms(query) # {}
    THEN {query \o Flatten(o) : o \in JoinOrders(expanded_terms(query))}
    ELSE {query}

InitExpand ==
    /\ InitAsk
    /\ \E n \in 0..MaxQueryLen : \E q \in [1..n -> QueryWords] : fin = [fn |-> "expand_query", query |-> q]
    /\ fout = NoneValue

CallExpandQuery ==
    /\ fout = NoneValue
    /\ fin.fn = "expand_query"
    /\ \E e \in expand_query(fin.query) : fout' = [once |-> e, twice |-> NoText]
    /\ UNCHANGED <<askVars, fin, llmVars>>

CallExpandQueryAgain ==
    /\ fout # NoneValue
    /\ fin.fn = "expand_query"
    /\ fout.twice = NoText
    /\ \E e \in expand_query(fout.once) : fout' = [fout EXCEPT !.twice = e]
    /\ UNCHANGED <<askVars, fin, llmVars>>

SpecExpand == InitExpand /\ [][CallExpandQuery \/ CallExpandQueryAgain]_vars

-----------------------------------------------------------------------------
(* get_query_relevance_scores of visualize_query.py, step by step.  The     *)
(* passages are 1..n; a ranking is an order of them.  The dense ranking and *)
(* the ranking compute_adaptive_hybrid_scores would return are inputs.      *)

MaxVisDocs == 3    \* passages of the index
MaxTopFacts == 2   \* facts that survive rerank_facts

Rankings(n) == {o \in [1..n -> 1..n] : \A i, j \in 1..n : o[i] = o[j] => i = j}

\* a retrieval that always takes the graph branch
HybridRetrieval_always_graph(top_k_facts, dpr_sorted_doc_ids, hybrid_doc_ids) ==
    [sorted_doc_ids |-> hybrid_doc_ids, use_dpr_only |-> FALSE,
     calls |-> {"graph_search_with_fact_entities", "compute_adaptive_hybrid_scores"}]

\* "Hybrid retrieval (same as /ask endpoint)": DPR only when no fact is left
HybridRetrieval(top_k_facts, dpr_sorted_doc_ids, hybrid_doc_ids) ==
    IF top_k_facts = 0
    THEN [sorted_doc_ids |-> dpr_sorted_doc_ids, use_dpr_only |-> TRUE, calls |-> {}]
    ELSE [sorted_doc_ids |-> hybrid_doc_ids, use_dpr_only |-> FALSE,
          calls |-> {"graph_search_with_fact_entities", "compute_adaptive_hybrid_scores"}]

\* candidate_docs: the first min(num_to_retrieve * 2, len(sorted_doc_ids)) passages
CandidateDocs(sorted_doc_ids, num_to_retrieve) ==
    Prefix(sorted_doc_ids, IF num_to_retrieve * 2 < Len(sorted_doc_ids) THEN num_to_retrieve * 2
                           ELSE Len(sorted_doc_ids))

InitVis ==
    /\ InitAsk
    /\ \E n \in 1..MaxVisDocs : \E dpr \in Rankings(n) : \E hyb \in Rankings(n) :
       \E facts \in 0..MaxTopFacts : \E k \in 1..MaxVisDocs : \E use \in BOOLEAN :
          fin = [fn |-> "get_query_relevance_scores", top_k_facts |-> facts, dpr_sorted_doc_ids |-> dpr,
                 hybrid_doc_ids |-> hyb, retrieval_top_k |-> k, use_reranker |-> use]
    /\ fout = NoneValue

\* get_fact_scores, rerank_facts, dense_passage_retrieval
VisRetrieve ==
    /\ fout = NoneValue
    /\ fin.fn = "get_query_relevance_scores"
    /\ fout' = [pc |-> "hybrid", calls |-> {"get_fact_scores", "rerank_facts", "dense_passage_retrieval"},
                sorted_doc_ids |-> << >>, use_dpr_only |-> FALSE, candidate_docs |-> << >>,
                reranker_called |-> FALSE, reranker_documents |-> << >>, final_docs |-> << >>]
    /\ UNCHANGED <<askVars, fin, llmVars>>

VisHybrid ==
    /\ fout # NoneValue
    /\ fin.fn = "get_query_relevance_scores"
    /\ fout.pc = "hybrid"
    /\ fout' = [fout EXCEPT
                   !.pc = "rerank",
                   !.sorted_doc_ids =
                       HybridRetrieval(fin.top_k_facts, fin.dpr_sorted_doc_ids, fin.hybrid_doc_ids).sorted_doc_ids,
                   !.use_dpr_only =
                       HybridRetrieval(fin.top_k_facts, fin.dpr_sorted_doc_ids, fin.hybrid_doc_ids).use_dpr_only,
                   !.calls = @ \cup
                       HybridRetrieval(fin.top_k_facts, fin.dpr_sorted_doc_ids, fin.hybrid_doc_ids).calls,
                   !.candidate_docs = CandidateDocs(
                       HybridRetrieval(fin.top_k_facts, fin.dpr_sorted_doc_ids, fin.hybrid_doc_ids).sorted_doc_ids,
                       fin.retrieval_top_k)]
    /\ UNCHANGED <<askVars, fin, llmVars>>

\* the cross-encoder reranks the candidates, or raises, or is not used
VisRerank ==
    /\ fout # NoneValue
    /\ fin.fn = "get_query_relevance_scores"
    /\ fout.pc = "rerank"
    /\ IF fin.use_reranker /\ Len(fout.candidate_docs) > 1
       THEN \/ \E o \in Rankings(Len(fout.candidate_docs)) :
                  fout' = [fout EXCEPT !.pc = "ppr", !.reranker_called = TRUE,
                              !.calls = @ \cup {"reranker.rerank"},
                              !.reranker_documents = fout.candidate_docs,
                              !.final_docs = Prefix([i \in DOMAIN o |-> fout.candidate_docs[o[i]]],
                                                    fin.retrieval_top_k)]
            \/ fout' = [fout EXCEPT !.pc = "ppr", !.reranker_called = TRUE,
                           !.calls = @ \cup {"reranker.rerank"},
                           !.reranker_documents = fout.candidate_docs,
                           !.final_docs = Prefix(fout.candidate_docs, fin.retrieval_top_k)]
       ELSE fout' = [fout EXCEPT !.pc = "ppr",
                        !.final_docs = Prefix(fout.candidate_docs, fin.retrieval_top_k)]
    /\ UNCHANGED <<askVars, fin, llmVars>>

\* "Run PPR for visualization": hipporag.graph.personalized_pagerank
VisPageRank ==
    /\ fout # NoneValue
    /\ fin.fn = "get_query_relevance_scores"
    /\ fout.pc = "ppr"
    /\ fout' = [fout EXCEPT !.pc = "done", !.calls = @ \cup {"personalized_pagerank"}]
    /\ UNCHANGED <<askVars, fin, llmVars>>

SpecVis == InitVis /\ [][VisRetrieve \/ VisHybrid \/ VisRerank \/ VisPageRank]_vars

-----------------------------------------------------------------------------
(* DSPyFilter.rerank.  A fact is a name; llm is what llm_call and            *)
(* parse_filter produce: the exception llm_infer_fn raised, or the list of  *)
(* facts parsed from the reply (empty when the reply does not parse).       *)

MaxCandidates == 2   \* candidate facts handed to the reranker

FactNames == {"f1", "f2", "f3"}

\* difflib.get_close_matches(..., n=1, cutoff=0.0)[0]: the candidate equal to
\* the generated fact when there is one, else whichever candidate is closest
ClosestMatches(generated_fact, candidate_items) ==
    IF \E i \in DOMAIN candidate_items : candidate_items[i] = generated_fact
    THEN {generated_fact}
    ELSE {candidate_items[i] : i \in DOMAIN candidate_items}

\* candidate_items.index(x)
IndexOf(items, x) == CHOOSE i \in DOMAIN items : items[i] = x /\ \A j \in 1..(i - 1) : items[j] # x

\* s[:n], where limited = FALSE stands for n = None
Slice(s, limited, n) == IF limited THEN Prefix(s, n) ELSE s

\* the results rerank can return, raised naming the exception that leaves it
DSPyFilter_rerank(candidate_items, candidate_indices, limited, len_after_rerank, llm) ==
    LET generated_facts == IF llm.error # None THEN << >> ELSE llm.generated
    IN  IF generated_facts = << >> /\ candidate_items # << >>
        THEN {[raised |-> None, fallback |-> TRUE,
               indices |-> Slice(candidate_indices, limited, len_after_rerank),
               items |-> Slice(candidate_items, limited, len_after_rerank)]}
        ELSE IF generated_facts # << >> /\ candidate_items = << >>
        THEN {[raised |-> "IndexError", fallback |-> FALSE, indices |-> << >>, items |-> << >>]}
        ELSE {[raised |-> None, fallback |-> FALSE,
               indices |-> Slice([i \in DOMAIN m |-> candidate_indices[IndexOf(candidate_items, m[i])]],
                                 limited, len_after_rerank),
               items |-> Slice([i \in DOMAIN m |-> candidate_items[IndexOf(candidate_items, m[i])]],
                               limited, len_after_rerank)]
                 : m \in {x \in [DOMAIN generated_facts -> FactNames] :
                             \A i \in DOMAIN x : x[i] \in ClosestMatches(generated_facts[i], candidate_items)}}

InitRerank ==
    /\ InitAsk
    /\ \E n \in 0..MaxCandidates : \E items \in [1..n -> FactNames] : \E indices \in [1..n -> 1..3] :
       \E limited \in BOOLEAN : \E len \in 0..MaxCandidates :
       \E llm \in {[error |-> e, generated |-> << >>] : e \in LlmErrors}
                  \cup UNION {{[error |-> None, generated |-> g] : g \in [1..k -> FactNames]}
                                 : k \in 0..MaxCandidates} :
          /\ \A i, j \in 1..n : indices[i] = indices[j] => i = j
          /\ fin = [fn |-> "rerank", candidate_items |-> items, candidate_indices |-> indices,
                    limited |-> limited, len_after_rerank |-> IF limited THEN len ELSE 0, llm |-> llm]
    /\ fout = NoneValue

CallRerank ==
    /\ fout = NoneValue
    /\ fin.fn = "rerank"
    /\ fout' \in DSPyFilter_rerank(fin.candidate_items, fin.candidate_indices, fin.limited,
                                   fin.len_after_rerank, fin.llm)
    /\ UNCHANGED <<askVars, fin, llmVars>>

SpecRerank == InitRerank /\ [][CallRerank]_vars

-----------------------------------------------------------------------------
(* run_decomposed_retrieval, stage by stage: the pool runs one worker per   *)
(* sub-query; a worker runs PASS 1 (hipporag.retrieve), PASS 2 (the BM25    *)
(* search, for date, fee and admit_card intents), then fuses, filters and   *)
(* returns.  cancelled records that the request was cancelled (the client   *)
(* went away); no statement of the code reads it.                           *)

MaxSubQueries == 3   \* sub-queries of one request

InitPool ==
    /\ InitAsk
    /\ \E n \in 1..MaxSubQueries : \E bm25 \in BOOLEAN :
          fin = [fn |-> "run_decomposed_retrieval", n |-> n, bm25 |-> bm25]
    /\ fout = NoneValue

\* executor.submit(retrieve_for_entity, sq) for every sub-query
SubmitWorkers ==
    /\ fout = NoneValue
    /\ fin.fn = "run_decomposed_retrieval"
    /\ fout' = [stage |-> [i \in 1..fin.n |-> "submitted"], ran |-> [i \in 1..fin.n |-> {}],
                cancelled |-> FALSE, returned |-> FALSE]
    /\ UNCHANGED <<askVars, fin, llmVars>>

PoolRunning == fout # NoneValue /\ fin.fn = "run_decomposed_retrieval" /\ ~fout.returned

\* PASS 1: Standard semantic retrieval
WorkerPass1(i) ==
    /\ PoolRunning
    /\ i \in DOMAIN fout.stage
    /\ fout.stage[i] = "submitted"
    /\ fout' = [fout EXCEPT !.stage[i] = IF fin.bm25 THEN "pass1_done" ELSE "passes_done",
                            !.ran[i] = @ \cup {"hipporag.retrieve"}]
    /\ UNCHANGED <<askVars, fin, llmVars>>

\* PASS 2: BM25-focused retrieval
WorkerPass2(i) ==
    /\ PoolRunning
    /\ i \in DOMAIN fout.stage
    /\ fout.stage[i] = "pass1_done"
    /\ fout' = [fout EXCEPT !.stage[i] = "passes_done", !.ran[i] = @ \cup {"bm25_retriever.search"}]
    /\ UNCHANGED <<askVars, fin, llmVars>>

\* fusion, filters, deduplication; the worker returns
WorkerReturn(i) ==
    /\ PoolRunning
    /\ i \in DOMAIN fout.stage
    /\ fout.stage[i] = "passes_done"
    /\ fout' = [fout EXCEPT !.stage[i] = "finished"]
    /\ UNCHANGED <<askVars, fin, llmVars>>

\* the request is cancelled while run_decomposed_retrieval is running
CancelRequest ==
    /\ PoolRunning
    /\ ~fout.cancelled
    /\ fout' = [fout EXCEPT !.cancelled = TRUE]
    /\ UNCHANGED <<askVars, fin, llmVars>>

\* the with block ends once every future is done; results are returned
PoolReturn ==
    /\ PoolRunning
    /\ \A i \in DOMAIN fout.stage : fout.stage[i] = "finished"
    /\ fout' = [fout EXCEPT !.returned = TRUE]
    /\ UNCHANGED <<askVars, fin, llmVars>>

NextPool ==
    \/ SubmitWorkers
    \/ \E i \in 1..MaxSubQueries : WorkerPass1(i)
    \/ \E i \in 1..MaxSubQueries : WorkerPass2(i)
    \/ \E i \in 1..MaxSubQueries : WorkerReturn(i)
    \/ CancelRequest
    \/ PoolReturn

SpecPool == InitPool /\ [][NextPool]_vars

-----------------------------------------------------------------------------
(* STEP 1 and the start of the single-entity path of ask_question, for any  *)
(* working question made of a few words: the two detectors side by side.    *)

MaxQuestionWords == 2   \* words of a working question

QuestionWords == {"KU", "kuet", "gst", "duet", "mbbs", "medical", "batch", "bn_khubi", "admission"}

InitDetect ==
    /\ InitAsk
    /\ \E n \in 1..MaxQuestionWords : \E q \in [1..n -> QuestionWords] :
          fin = [fn |-> "ask_question: detectors", working_question |-> q]
    /\ fout = NoneValue

\* detect_entities_in_query, then get_queried_university when at most one entity was detected
CallDetectors ==
    /\ fout = NoneValue
    /\ fin.fn = "ask_question: detectors"
    /\ fout' = IF ask_coaching_check(fin.working_question)
               THEN [path |-> "coaching", detected_entities |-> << >>, queried_university |-> None]
               ELSE IF Len(detect_entities_in_query(fin.working_question)) > 1
               THEN [path |-> "multi", detected_entities |-> detect_entities_in_query(fin.working_question),
                     queried_university |-> None]
               ELSE [path |-> "single", detected_entities |-> detect_entities_in_query(fin.working_question),
                     queried_university |-> get_queried_university(fin.working_question)]
    /\ UNCHANGED <<askVars, fin, llmVars>>

SpecDetect == InitDetect /\ [][CallDetectors]_vars

-----------------------------------------------------------------------------
(* The LLM gateway on its own: callers issue infer calls concurrently *)

NextLLM ==
    \/ \E p \in Callers : \E req \in LlmRequests : LookupLock(p, req)
    \/ \E p \in Callers : InferLookup(p)
    \/ \E p \in Callers : InferAttempt(p)
    \/ \E p \in Callers : StoreLock(p)
    \/ \E p \in Callers : InferStore(p)
    \/ \E p \in Callers : InferDone(p)

SpecLLM == Init /\ [][NextLLM]_vars

-----------------------------------------------------------------------------
(* Properties *)

\* the passages of a list that contain a must_contain marker of the abbreviation
MatchingPositions(docs, abbrev) ==
    {i \in DOMAIN docs : MatchCount(docs[i], UNIVERSITY_FILTER_PATTERNS[abbrev].must_contain) > 0}

FilterReturned == fout # NoneValue

OkResponse == response # NoneValue /\ response.status = 200

\* the passage passes the rule of the abbreviation
PassesRule(doc, abbrev) ==
    /\ MatchCount(doc, UNIVERSITY_FILTER_PATTERNS[abbrev].must_contain) > 0
    /\ ~ContainsForbidden(doc, UNIVERSITY_FILTER_PATTERNS[abbrev].must_not_contain)

\* C1: every passage either university filter returns for an abbreviation of
\* the table contains at least one must_contain marker and no must_not_contain
\* marker of that abbreviation's rule (for ku: no passage with a KUET marker).
\* Stated for the calls in which some input passage passes the rule, so that
\* neither filter falls back to unfiltered passages.
C1_FilterKeepsOnlyRulePassages ==
    (/\ FilterReturned
     /\ fin.queried_uni \in FilterAbbrevs
     /\ \E i \in DOMAIN fin.docs : PassesRule(fin.docs[i], fin.queried_uni))
        => \A i \in DOMAIN fout.docs : PassesRule(fout.docs[i], fin.queried_uni)

\* the messages the not-found responder can produce for a question of the model
ResponderMessages == {generate_contextual_not_found_response(q) : q \in Questions}

\* C2: every successful /ask response whose answer is classified not-found
\* (a message of the not-found responder, or an answer containing a not-found
\* phrase) carries an empty references list, on both paths.
C2_NotFoundHasNoReferences ==
    (OkResponse /\ (response.answer \in ResponderMessages \/ HasNotFoundIndicator(response.answer)))
        => response.references = << >>

\* C3: the references of every successful /ask response are ordered by
\* non-increasing score, on both paths.
C3_ReferencesSortedByScore ==
    OkResponse =>
        \A i \in 1..(Len(response.references) - 1) :
            response.references[i].score >= response.references[i + 1].score

\* C4 as stated: the content of every reference of a successful /ask response
\* is at most 1,500 characters long.
C4_ContentAtMost1500 ==
    OkResponse => \A i \in DOMAIN response.references : response.references[i].content.len <= 1500

\* C4, amended: the content of every reference of a successful /ask response is
\* at most 1,503 characters long (1,500 characters of the passage and the
\* three-character ellipsis), and a content longer than 1,500 characters ends
\* with the ellipsis.
C4_ContentAtMost1503 ==
    OkResponse =>
        \A i \in DOMAIN response.references :
            LET content == response.references[i].content
            IN  /\ content.len <= 1503
                /\ content.len > 1500 => content.toks[Len(content.toks)] = "..."

\* a response with a reference built from a passage longer than 1,500 characters
C4_Witness ==
    /\ OkResponse
    /\ \E i \in DOMAIN response.references : response.references[i].content.len = 1503

ModelStages == {"rewrite_llm", "retrieve", "answer_llm"}

\* C5: a request whose question is the empty string invokes no model: no
\* rewriter LLM call, no retrieval and no answer LLM call is made for it.
C5_EmptyQuestionInvokesNoModel ==
    (request # NoneValue /\ request.question = << >>) => calls \cap ModelStages = {}

\* C6: when entity detection finds no entity, the request takes the
\* single-entity path, the strict university filter is not applied, and the
\* canned filter response is not returned.
C6_NoEntityNoFilter ==
    ("detect_entities" \in calls /\ detected_entities = << >>) =>
        /\ "decompose" \notin calls
        /\ "strict_filter" \notin calls
        /\ OkResponse => response.answer # coaching_not_found

AnswerStageReached == retrieved # NoneValue /\ qs # NoneValue

\* no retrieved passage contains a must_contain marker of the abbreviation
NoneMatched(abbrev) ==
    \/ abbrev \notin FilterAbbrevs
    \/ MatchingPositions(retrieved.docs, abbrev) = {}

SkippedStages == {"detect_entities", "detect_intent", "decompose", "retrieve", "strict_filter", "answer_llm"}

\* the handler is past the early coaching check
PastCoachingCheck == pc \notin {"idle", "rewrite", "analyze"} /\ working_question # NoText

\* C9: whenever the coaching regex set matches the working query, /ask
\* returns the canned coaching response with an empty references list, and no
\* entity detection, decomposition, retrieval or answer LLM call is made.
C9_CoachingShortCircuit ==
    (PastCoachingCheck /\ AnyInText(strong_coaching_patterns, Lower(working_question))) =>
        /\ pc = "done"
        /\ OkResponse
        /\ response.answer = coaching_not_found
        /\ response.references = << >>
        /\ calls \cap SkippedStages = {}

\* a coaching question has been answered
C9_Witness ==
    /\ pc = "done"
    /\ working_question # NoText
    /\ AnyInText(strong_coaching_patterns, Lower(working_question))
    /\ OkResponse
    /\ response.answer = coaching_not_found

\* C10: on every successful return of /ask the response's question field is
\* the question as the client submitted it, also when the query was rewritten.
C10_QuestionEchoed ==
    OkResponse => response.question = request.question

\* a rewritten question answered on the multi-entity path
C10_Witness ==
    /\ OkResponse
    /\ working_question # request.question
    /\ "decompose" \in calls
    /\ response.question = request.question

\* the stages after the rewrite have run on the single-entity or multi-entity path
Analyzed == "detect_entities" \in calls

\* C11: every stage that runs after the clarity check computes from the
\* working (rewritten) query: entity detection, intent detection, the
\* university chosen for the filter, the decomposer's sub-queries and the
\* not-found responder's message are those of the working query.
C11_StagesUseWorkingQuery ==
    /\ Analyzed =>
          /\ detected_entities = detect_entities_in_query(working_question)
          /\ query_intent = detect_query_intent(working_question)
    /\ (Analyzed /\ Len(detected_entities) <= 1) =>
          queried_university = get_queried_university(working_question)
    /\ (OkResponse /\ "not_found_responder" \in calls) =>
          response.answer = generate_contextual_not_found_response(working_question)

\* C12: for a query with more than one detected entity, the decomposer's
\* output holds exactly one sub-query per detected entity: every detected
\* abbreviation appears exactly once, whether the LLM's reply is accepted or
\* the rule-based fallback is used.
C12_OneSubQueryPerEntity ==
    "decompose" \in calls =>
        /\ Len(sub_queries) = Len(detected_entities)
        /\ \A e \in DOMAIN detected_entities :
              Cardinality({i \in DOMAIN sub_queries : sub_queries[i][1] = detected_entities[e][1]}) = 1

\* C13: for every single-entity query with date intent, the regex extractor
\* extract_exam_date_regex has been run by the time the answer LLM is called.
\* (calls holds the name of every stage the handler has invoked.)
C13_DateExtractorRunsBeforeLLM ==
    (/\ "answer_llm" \in calls
     /\ "decompose" \notin calls
     /\ Len(detected_entities) = 1
     /\ query_intent = "date") => "extract_exam_date_regex" \in calls

\* C14: whenever no index is loaded, an /ask request is answered with HTTP
\* 400, and no clarity check, rewrite, detection, retrieval or model call has
\* been made for it.
C14_NoIndexIs400 ==
    (request # NoneValue /\ hipporag_instance = None) =>
        /\ pc = "done"
        /\ response # NoneValue
        /\ response.status = 400
        /\ calls = {}
        /\ working_question = NoText
        /\ answer = NoText

\* a question was asked while no index was loaded
C14_Witness ==
    /\ request # NoneValue
    /\ hipporag_instance = None
    /\ response # NoneValue
    /\ response.status = 400

\* C15: every /ask request that fails inside the pipeline is answered with a
\* 5xx whose message is generic: it is the same whatever internal exception
\* occurred, so it is never the text of the exception that was raised.
C15_ErrorDetailIsGeneric ==
    (response # NoneValue /\ response.status >= 500) => response.detail \notin PipelineExceptions

\* C16: a permanent remote error (authentication failure, invalid model)
\* raised by an LLM call is surfaced on its first occurrence: once an attempt
\* has raised a permanent error, the call has ended by raising and no further
\* attempt is pending.
C16_PermanentErrorNotRetried ==
    \A p \in Callers :
        llm_call[p].error \in PermanentErrors => llm_call[p].pc = "raised"

\* C20: any two gateway calls with the same (model, seed, temperature,
\* messages) that were both answered from the cache returned the same
\* content, whatever lookups and stores happened between them.
C20_CacheHitsAgree ==
    \A h1, h2 \in llm_hits : h1[1] = h2[1] => h1[2] = h2[2]

\* the document occurs in the ranked list
OccursIn(d, ranked_list) == \E r \in DOMAIN ranked_list : ranked_list[r].doc = d

\* C17: reciprocal_rank_fusion returns every document of the input lists
\* once, and gives a document d the score that is the sum of 1/(60 + rank_i(d))
\* over exactly the lists i in which d occurs, rank_i(d) being d's 1-based
\* position in list i.
C17_RRFScoreIsReciprocalRankSum ==
    (fout # NoneValue /\ fin.fn = "rrf") =>
        LET lists == fin.ranked_lists
            out == fout.results
            term(d, l) == IF OccursIn(d, lists[l])
                          THEN ScoreScale \div (60 + (CHOOSE r \in DOMAIN lists[l] : lists[l][r].doc = d))
                          ELSE 0
        IN  /\ {out[i].doc : i \in DOMAIN out}
                  = UNION {{lists[l][r].doc : r \in DOMAIN lists[l]} : l \in DOMAIN lists}
            /\ \A i, j \in DOMAIN out : out[i].doc = out[j].doc => i = j
            /\ \A i \in DOMAIN out :
                  out[i].score = SumSeq([l \in DOMAIN lists |-> term(out[i].doc, l)])

\* a document ranked first in one list and second in the other has been fused
C17_Witness ==
    /\ fout # NoneValue
    /\ fin.fn = "rrf"
    /\ Len(fin.ranked_lists) = 2
    /\ Len(fin.ranked_lists[1]) >= 1
    /\ Len(fin.ranked_lists[2]) = 2
    /\ \E i \in DOMAIN fout.results :
          /\ fin.ranked_lists[1][1].doc = fout.results[i].doc
          /\ fin.ranked_lists[2][2].doc = fout.results[i].doc
          /\ fout.results[i].score = (ScoreScale \div 61) + (ScoreScale \div 62)

\* C18: for every BM25 search over an initialised index, all returned
\* scores lie in [0, 1], the results are ordered by non-increasing score, and
\* whenever the raw scores are not all equal the first returned document has
\* score exactly 1.
C18_BM25ScoresNormalised ==
    (fout # NoneValue /\ fin.fn = "bm25" /\ fin.initialized) =>
        /\ \A i \in DOMAIN fout.scores : fout.scores[i] >= 0 /\ fout.scores[i] <= NormScale
        /\ \A i \in 1..(Len(fout.scores) - 1) : fout.scores[i] >= fout.scores[i + 1]
        /\ Len(fout.ids) = Len(fout.scores)
        /\ (\E i, j \in DOMAIN fin.raw : fin.raw[i] # fin.raw[j]) =>
              /\ fout.scores # << >>
              /\ fout.scores[1] = NormScale
              /\ fin.raw[fout.ids[1]] = ArrMax(fin.raw)

\* a search over three documents with distinct raw scores, one of them negative, cut to two results
C18_Witness ==
    /\ fout # NoneValue
    /\ fin.fn = "bm25"
    /\ fin.initialized
    /\ fin.raw = <<0, 2, -1>>
    /\ fin.top_k = 2
    /\ fout.ids = <<2, 1>>
    /\ fout.scores[1] = NormScale
    /\ fout.scores[2] = NormScale \div 3

\* C19: the query expander is idempotent modulo the order of the appended
\* terms: expand_query(expand_query(q)) is q followed by the same set of
\* expansion terms as expand_query(q), nothing being added by the second
\* application.
C19_ExpandQueryIdempotent ==
    (fout # NoneValue /\ fin.fn = "expand_query" /\ fout.twice # NoText) =>
        /\ fout.twice \in expand_query(fin.query)
        /\ expanded_terms(fout.once) = expanded_terms(fin.query)

C22_TransientErrorPropagates ==
    (fout # NoneValue /\ fin.fn = "rerank") =>
        /\ fin.llm.error \in TransientErrors => fout.raised = fin.llm.error
        /\ fout.fallback => fin.llm.error = None

C24_CancelledSubQueriesStop ==
    [][(PoolRunning /\ fout.cancelled) => \A i \in DOMAIN fout.ran : fout'.ran[i] = fout.ran[i]]_vars

\* C25: at most one write to the LLM cache file is in progress at any time:
\* every cache write holds the file's advisory lock for the whole of its
\* database transaction, under any interleaving of concurrent gateway calls.
C25_CacheWritesHoldLock ==
    /\ \A p \in Callers : llm_call[p].pc = "storing" => llm_lock = p
    /\ Cardinality({p \in Callers : llm_call[p].pc = "storing"}) <= 1

\* one caller is writing its row while another, its reply in hand, waits for the lock
C25_Witness ==
    /\ llm_call[1].pc = "storing"
    /\ llm_lock = 1
    /\ llm_call[2].pc = "store"
    /\ llm_call[2].key = llm_call[1].key

\* C26: a cache lookup by the LLM gateway never acquires the cache file lock,
\* so a lookup is never blocked by a concurrent cache write or by another
\* lookup on the same cache file.
C26_LookupTakesNoLock ==
    \A p \in Callers : llm_call[p].pc = "lookup" => llm_lock # p

C29_OneLlmCallPerKey ==
    \A p, q \in Callers :
        (p # q /\ llm_call[p].key # << >> /\ llm_call[p].key = llm_call[q].key) =>
            /\ ~(/\ ~llm_call[p].cache_hit /\ llm_call[p].message # None
                 /\ ~llm_call[q].cache_hit /\ llm_call[q].message # None)
            /\ (llm_call[p].pc = "returned" /\ llm_call[q].pc = "returned") =>
                  llm_call[p].message = llm_call[q].message

\* C28: if a /index or /index-folder request fails with HTTP 500, the
\* service's loaded index is the same as before that request; in particular,
\* if no index was loaded before, a later /ask is still answered with 400.
C28_FailedIndexKeepsIndex ==
    [][(pc = "idle" /\ request' = NoneValue /\ response' # NoneValue /\ response'.status = 500) =>
           hipporag_instance' = hipporag_instance]_vars

\* C30: on the single-entity path with exactly one detected entity, the
\* abbreviation that selects the strict university filter is that entity's
\* abbreviation: detect_entities_in_query and get_queried_university never
\* disagree on which institution the query is about.
C30_DetectorsAgree ==
    (fout # NoneValue /\ fin.fn = "ask_question: detectors" /\ fout.path = "single"
        /\ Len(fout.detected_entities) = 1) =>
            fout.queried_university = fout.detected_entities[1][1]

====
